---------------------------- MODULE Spec2Model ----------------------------
(***************************************************************************)
(* A model of the SPI flash driver of src/src/spiflash.c / spiflash.h: the *)
(* operation state machine (_spiflash_begin_async / _spiflash_end_async),  *)
(* the erase and page planners, the busy-wait sub-machine, the execution   *)
(* driver (_spiflash_exe, SPIFLASH_async_trigger) and the public requests. *)
(***************************************************************************)
EXTENDS Integers, Sequences, FiniteSets, TLC

VARIABLES
  cfg,       \* spi->cfg: the chip configuration (never written after init)
  cmd_tbl,   \* spi->cmd_tbl: the command table (never written after init)
  spi,       \* the mutable fields of spiflash_t
  cs_pin,    \* level set by the last hal->_spiflash_spi_cs call
  pending,   \* async mode: the HAL request whose completion is outstanding
  trace,     \* HAL calls made since the last accepted request
  ev,        \* the last API entry (request, trigger) and what it returned
  req,       \* the last accepted request: its arguments, the driver state it
             \* entered _spiflash_exe with, its return value, its callbacks
  pc,        \* sync mode: "none", or "loop" inside _spiflash_exe's while loop
  sync_res,  \* sync mode: the local res of _spiflash_exe
  env,       \* what the HAL and the host may do in this run (never written)
  nreq,      \* number of requests accepted so far
  nbusy      \* number of busy status bytes the chip returned in this operation

vars == <<cfg, cmd_tbl, env, spi, cs_pin, pending, trace, ev, req, pc, sync_res, nreq, nbusy>>

---------------------------------------------------------------------------
(* Result codes, spiflash.h:44-50 *)
SPIFLASH_OK == 0
SPIFLASH_ERR_INTERNAL == -24001
SPIFLASH_ERR_BAD_STATE == -24002
SPIFLASH_ERR_HW_BUSY == -24003
SPIFLASH_ERR_BUSY == -24004
SPIFLASH_ERR_ERASE_UNALIGNED == -24005
SPIFLASH_ERR_BAD_CONFIG == -24006

(* Busy-check-wait sub-states, spiflash.c:33-36 *)
BCW_IDLE == 0
BCW_WAIT == 1
BCW_READ_SR == 2
BCW_CHECK == 3

(* spiflash_op_t, spiflash.h:203-224 *)
SPIFLASH_OP_IDLE == "IDLE"
OpsWrite == {"WRITE_sWREN", "WRITE_sADDR", "WRITE_sDATA"}
OpsErase == {"ERASE_BLOCK_sWREN", "ERASE_BLOCK_sERAS"}
OpsChipErase == {"ERASE_CHIP_sWREN", "ERASE_CHIP_sERAS"}
OpsWriteSr == {"WRITE_SR_sWREN", "WRITE_SR_sDATA"}
OpsWriteReg == {"WRITE_REG_sWREN", "WRITE_REG_sDATAWAIT", "WRITE_REG_DATA"}
OpsSingle == {"READ", "FAST_READ", "READ_SR", "READ_SR_BUSY", "READ_JEDEC",
              "READ_PRODUCT", "READ_REG"}
SpiflashOps == {SPIFLASH_OP_IDLE} \cup OpsWrite \cup OpsErase \cup OpsChipErase
                 \cup OpsWriteSr \cup OpsWriteReg \cup OpsSingle

---------------------------------------------------------------------------
(* Integer helpers: C operators on unsigned values *)
RECURSIVE Pow2(_)
Pow2(n) == IF n = 0 THEN 1 ELSE 2 * Pow2(n - 1)

RECURSIVE BitAnd(_, _)
BitAnd(a, b) ==
  IF a = 0 \/ b = 0 THEN 0
  ELSE (IF a % 2 = 1 /\ b % 2 = 1 THEN 1 ELSE 0) + 2 * BitAnd(a \div 2, b \div 2)

Shr(v, n) == v \div Pow2(n)

Min(a, b) == IF a < b THEN a ELSE b

\* v & -v for a uint32_t: the lowest set bit of v, 0 for v = 0
RECURSIVE LowBit(_)
LowBit(v) == IF v = 0 THEN 0 ELSE IF v % 2 = 1 THEN 1 ELSE 2 * LowBit(v \div 2)

RECURSIVE Log2(_)
Log2(p) == IF p <= 1 THEN 0 ELSE 1 + Log2(p \div 2)

\* spiflash.c:38-41
MultiplyDeBruijnBitPosition ==
  <<32, 1, 28, 2, 29, 14, 24, 3, 30, 22, 20, 15, 25, 17, 4, 8,
    31, 27, 13, 23, 21, 19, 16, 7, 26, 12, 18, 6, 11, 5, 10, 9>>

DeBruijn == 125613361   \* 0x077CB531

\* ((uint32_t)(p * 0x077CB531U)) >> 27 for p = 2^k: the product is the
\* constant shifted left by k and cut to 32 bits, so its five top bits are
\* bits 27-k .. 31-k of the constant.
DeBruijnIndex(p) ==
  IF p = 0 THEN 0
  ELSE LET k == Log2(p) IN
       IF k <= 27 THEN Shr(DeBruijn, 27 - k) % 32
       ELSE ((DeBruijn % Pow2(32 - k)) * Pow2(k - 27)) % 32

\* spiflash.c:43-46
spiflash_clz(v) == MultiplyDeBruijnBitPosition[DeBruijnIndex(LowBit(v)) + 1]

\* spiflash.c:48-50
spiflash_is_hwbusy(sr) == BitAnd(sr, cmd_tbl.sr_busy_bit)

\* faulty variant: the address is always serialized least significant byte first
spiflash_compose_address_LsbFirst(addr) ==
  [i \in 1..cfg.addr_sz |-> Shr(addr, 8 * (i - 1)) % 256]

\* spiflash.c:52-60: the addr_sz address bytes, as a sequence
spiflash_compose_address(addr) ==
  [i \in 1..cfg.addr_sz |->
     (IF cfg.addr_endian # 0
        THEN Shr(addr, 8 * ((cfg.addr_sz - 1) - (i - 1)))
        ELSE Shr(addr, 8 * (i - 1))) % 256]

\* spiflash.c:68-77
spiflash_get_supported_block_mask ==
    (IF cmd_tbl.block_erase_4 # 0 THEN Pow2(4) ELSE 0)
  + (IF cmd_tbl.block_erase_8 # 0 THEN Pow2(5) ELSE 0)
  + (IF cmd_tbl.block_erase_16 # 0 THEN Pow2(6) ELSE 0)
  + (IF cmd_tbl.block_erase_32 # 0 THEN Pow2(7) ELSE 0)
  + (IF cmd_tbl.block_erase_64 # 0 THEN Pow2(8) ELSE 0)

\* spiflash.c:91-103: the while loop, on (bm, bm_lz, res)
RECURSIVE EraseAreaLoop(_, _, _, _, _)
EraseAreaLoop(bm, bm_lz, res, addr_lz, len) ==
  IF bm = 0 THEN res
  ELSE LET res1 == IF addr_lz >= bm_lz /\ len >= Pow2(bm_lz) THEN Pow2(bm_lz) ELSE res
           bm1 == Shr(bm, 1)
           clz1 == spiflash_clz(bm1)
           new_bm_lz == IF clz1 = 32 THEN 0 ELSE clz1
       IN EraseAreaLoop(Shr(bm1, new_bm_lz), bm_lz + 1 + new_bm_lz, res1, addr_lz, len)

\* faulty variant: len is not checked against the smallest erase block
EraseLenUnchecked(len, bm_lz) == TRUE

\* spiflash.c:85-89: the check of len against the smallest erase block
EraseLenAligned(len, bm_lz) == len % Pow2(bm_lz) = 0

\* spiflash.c:79-106 (for a command table with at least one block erase opcode)
spiflash_get_largest_erase_area(addr, len) ==
  LET bm0 == spiflash_get_supported_block_mask
      lz0 == spiflash_clz(bm0)
      addr_lz == spiflash_clz(addr)
      bm == Shr(bm0, lz0)
      bm_lz == lz0 + 8
  IN IF ~EraseLenAligned(len, bm_lz) THEN 0
     ELSE EraseAreaLoop(bm, bm_lz, 0, addr_lz, len)

\* faulty variant: the lookup does not know the 32K block
spiflash_get_erase_cmd_No32K(len) ==
  IF len = 4 * 1024 /\ cmd_tbl.block_erase_4 # 0 THEN cmd_tbl.block_erase_4
  ELSE IF len = 8 * 1024 /\ cmd_tbl.block_erase_8 # 0 THEN cmd_tbl.block_erase_8
  ELSE IF len = 16 * 1024 /\ cmd_tbl.block_erase_16 # 0 THEN cmd_tbl.block_erase_16
  ELSE IF len = 64 * 1024 /\ cmd_tbl.block_erase_64 # 0 THEN cmd_tbl.block_erase_64
  ELSE 0

\* spiflash.c:108-121
spiflash_get_erase_cmd(len) ==
  IF len = 4 * 1024 /\ cmd_tbl.block_erase_4 # 0 THEN cmd_tbl.block_erase_4
  ELSE IF len = 8 * 1024 /\ cmd_tbl.block_erase_8 # 0 THEN cmd_tbl.block_erase_8
  ELSE IF len = 16 * 1024 /\ cmd_tbl.block_erase_16 # 0 THEN cmd_tbl.block_erase_16
  ELSE IF len = 32 * 1024 /\ cmd_tbl.block_erase_32 # 0 THEN cmd_tbl.block_erase_32
  ELSE IF len = 64 * 1024 /\ cmd_tbl.block_erase_64 # 0 THEN cmd_tbl.block_erase_64
  ELSE 0

\* spiflash.c:123-136
spiflash_get_erase_time(len) ==
  IF len = 4 * 1024 THEN cfg.block_erase_4_ms
  ELSE IF len = 8 * 1024 THEN cfg.block_erase_8_ms
  ELSE IF len = 16 * 1024 THEN cfg.block_erase_16_ms
  ELSE IF len = 32 * 1024 THEN cfg.block_erase_32_ms
  ELSE IF len = 64 * 1024 THEN cfg.block_erase_64_ms
  ELSE 0

\* spiflash.c:32
DECR_WAIT(ms) == IF (1 * ms) \div 2 = 0 THEN 1 ELSE (1 * ms) \div 2

\* spiflash.c:62-66
spiflash_finalize(s) ==
  [s EXCEPT !.wait_period_ms = 0, !.busy_pre_check = 0, !.busy_check_wait = BCW_IDLE]

---------------------------------------------------------------------------
(* HAL calls, spiflash.h:119-159.  A call is logged as a record: k is the   *)
(* HAL function, a its scalar argument (the cs level, the wait time) or,    *)
(* for spi_txrx, the value the call returned; tx the bytes transmitted,     *)
(* rxlen the rx length, rxv the status byte received into spi->sr_data      *)
(* (-1 when the rx buffer is the caller's), at the engine step that called. *)
CsCall(level, at) ==
  [k |-> "cs", a |-> level, tx |-> <<>>, rxlen |-> 0, rxv |-> -1, at |-> at]
TxrxCall(tx, rxlen, rxv, r, at) ==
  [k |-> "txrx", a |-> r, tx |-> tx, rxlen |-> rxlen, rxv |-> rxv, at |-> at]
WaitCall(ms, at) ==
  [k |-> "wait", a |-> ms, tx |-> <<>>, rxlen |-> 0, rxv |-> -1, at |-> at]

BufLen == 16   \* spiflash.h:275, uint8_t tx_internal_buf[16]

\* the first n bytes of tx_internal_buf, as transmitted
Frame(buf, n) == [i \in 1..n |-> buf[i - 1]]

\* _spiflash_compose_address(spi, addr, &spi->tx_internal_buf[1])
PutAddress(buf, addr) ==
  LET a == spiflash_compose_address(addr)
  IN [i \in 0..(BufLen - 1) |-> IF i \in 1..cfg.addr_sz THEN a[i] ELSE buf[i]]

\* the caller's write buffer: the byte at offset i
WrData(i) == (160 + i) % 256

\* A txrx of spi->cmd_tbl->read_sr with rx into &spi->sr_data, the byte that
\* the union overlays on reg_nbr and tx_internal_buf[0] (spiflash.h:272-276).
\* The HAL delivers the status byte sr when the call succeeds.
ReadSrIntoSrData(s, r, sr) ==
  IF r = SPIFLASH_OK THEN [s EXCEPT !.buf[0] = sr] ELSE s

\* spiflash.c:154-160, 188-194, 216-222, 235-241, 314-320: a write enable step
BeginWren(s, r, at) ==
  [spi |-> s, res |-> r,
   calls |-> <<CsCall(1, at), TxrxCall(<<cmd_tbl.write_enable>>, 0, -1, r, at)>>]

\* faulty variant: the whole remaining payload in one page program
BeginWriteData_NoSplit(s, r) ==
  LET wr_sz == s.len
      wr_buf == s.ptr
  IN [spi |-> [s EXCEPT !.ptr = s.ptr + wr_sz,
                        !.len = s.len - wr_sz,
                        !.addr = s.addr + wr_sz,
                        !.wait_period_ms = cfg.page_program_ms,
                        !.busy_check_wait = BCW_WAIT],
      res |-> r,
      calls |-> <<TxrxCall([i \in 1..wr_sz |-> WrData(wr_buf + i - 1)], 0, -1, r,
                           "WRITE_sDATA")>>]

\* faulty variant: the payload is sent as a chip-select frame of its own
BeginWriteData_OwnFrame(s, r) ==
  LET rem_pg_sz == cfg.page_sz - BitAnd(s.addr, cfg.page_sz - 1)
      wr_sz == IF s.len < rem_pg_sz THEN s.len ELSE rem_pg_sz
      wr_buf == s.ptr
  IN [spi |-> [s EXCEPT !.ptr = s.ptr + wr_sz,
                        !.len = s.len - wr_sz,
                        !.addr = s.addr + wr_sz,
                        !.wait_period_ms = cfg.page_program_ms,
                        !.busy_check_wait = BCW_WAIT],
      res |-> r,
      calls |-> <<CsCall(0, "WRITE_sDATA"), CsCall(1, "WRITE_sDATA"),
                  TxrxCall([i \in 1..wr_sz |-> WrData(wr_buf + i - 1)], 0, -1, r,
                           "WRITE_sDATA")>>]

\* spiflash.c:173-186
BeginWriteData(s, r) ==
  LET rem_pg_sz == cfg.page_sz - BitAnd(s.addr, cfg.page_sz - 1)
      wr_sz == IF s.len < rem_pg_sz THEN s.len ELSE rem_pg_sz
      wr_buf == s.ptr
  IN [spi |-> [s EXCEPT !.ptr = s.ptr + wr_sz,
                        !.len = s.len - wr_sz,
                        !.addr = s.addr + wr_sz,
                        !.wait_period_ms = cfg.page_program_ms,
                        !.busy_check_wait = BCW_WAIT],
      res |-> r,
      calls |-> <<TxrxCall([i \in 1..wr_sz |-> WrData(wr_buf + i - 1)], 0, -1, r,
                           "WRITE_sDATA")>>]

\* faulty variant: the erase step leaves the cursor where it was
EraseBlockOf_KeepsAddr(s, r, era_sz) ==
  LET cmd == spiflash_get_erase_cmd(era_sz)
      at == "ERASE_BLOCK_sERAS"
      buf == PutAddress([s.buf EXCEPT ![0] = cmd], s.addr)
  IN [spi |-> [s EXCEPT !.buf = buf,
                        !.len = s.len - era_sz,
                        !.wait_period_ms = spiflash_get_erase_time(era_sz),
                        !.busy_check_wait = BCW_WAIT],
      res |-> r,
      calls |-> <<CsCall(1, at),
                  TxrxCall(Frame(buf, 1 + cfg.addr_sz + cfg.addr_dummy_sz),
                           0, -1, r, at)>>]

\* spiflash.c:198-213: the erase step once era_sz is known
EraseBlockOf(s, r, era_sz) ==
  LET cmd == spiflash_get_erase_cmd(era_sz)
      era_time == spiflash_get_erase_time(era_sz)
      at == "ERASE_BLOCK_sERAS"
  IN IF cmd = 0
       THEN [spi |-> s, res |-> SPIFLASH_ERR_BAD_CONFIG, calls |-> <<CsCall(1, at)>>]
       ELSE LET buf == PutAddress([s.buf EXCEPT ![0] = cmd], s.addr)
            IN [spi |-> [s EXCEPT !.buf = buf,
                                  !.addr = s.addr + era_sz,
                                  !.len = s.len - era_sz,
                                  !.wait_period_ms = era_time,
                                  !.busy_check_wait = BCW_WAIT],
                res |-> r,
                calls |-> <<CsCall(1, at),
                            TxrxCall(Frame(buf, 1 + cfg.addr_sz + cfg.addr_dummy_sz),
                                     0, -1, r, at)>>]

\* spiflash.c:195-214
BeginEraseBlock(s, r) ==
  EraseBlockOf(s, r, spiflash_get_largest_erase_area(s.addr, s.len))

\* spiflash.c:138-338.  r is the value hal->_spiflash_spi_txrx returns and sr
\* the status byte the chip answers to a read_sr into spi->sr_data.
spiflash_begin_async(s, r, sr) ==
  IF s.op = SPIFLASH_OP_IDLE
    THEN [spi |-> s, res |-> SPIFLASH_ERR_BAD_STATE, calls |-> <<>>]
  ELSE IF s.busy_pre_check # 0
    THEN [spi |-> ReadSrIntoSrData(s, r, sr), res |-> r,
          calls |-> <<CsCall(1, "precheck"),
                      TxrxCall(<<cmd_tbl.read_sr>>, 1, sr, r, "precheck")>>]
  ELSE CASE s.op = "WRITE_sWREN" -> BeginWren(s, r, s.op)
    [] s.op = "WRITE_sADDR" ->
         LET buf == PutAddress([s.buf EXCEPT ![0] = cmd_tbl.page_program], s.addr)
         IN [spi |-> [s EXCEPT !.buf = buf], res |-> r,
             calls |-> <<CsCall(1, s.op),
                         TxrxCall(Frame(buf, 1 + cfg.addr_sz + cfg.addr_dummy_sz),
                                  0, -1, r, s.op)>>]
    [] s.op = "WRITE_sDATA" -> BeginWriteData(s, r)
    [] s.op = "ERASE_BLOCK_sWREN" -> BeginWren(s, r, s.op)
    [] s.op = "ERASE_BLOCK_sERAS" -> BeginEraseBlock(s, r)
    [] s.op = "WRITE_SR_sWREN" -> BeginWren(s, r, s.op)
    [] s.op = "WRITE_SR_sDATA" ->
         LET buf == [[s.buf EXCEPT ![1] = s.buf[0]] EXCEPT ![0] = cmd_tbl.write_sr]
         IN [spi |-> [s EXCEPT !.buf = buf,
                               !.wait_period_ms = cfg.sr_write_ms,
                               !.busy_check_wait = BCW_WAIT],
             res |-> r,
             calls |-> <<CsCall(1, s.op), TxrxCall(Frame(buf, 2), 0, -1, r, s.op)>>]
    [] s.op = "ERASE_CHIP_sWREN" -> BeginWren(s, r, s.op)
    [] s.op = "ERASE_CHIP_sERAS" ->
         LET buf == [s.buf EXCEPT ![0] = cmd_tbl.chip_erase]
         IN [spi |-> [s EXCEPT !.buf = buf,
                               !.wait_period_ms = cfg.chip_erase_ms,
                               !.busy_check_wait = BCW_WAIT],
             res |-> r,
             calls |-> <<CsCall(1, s.op), TxrxCall(Frame(buf, 1), 0, -1, r, s.op)>>]
    [] s.op = "READ" ->
         LET buf == PutAddress([s.buf EXCEPT ![0] = cmd_tbl.read_data], s.addr)
         IN [spi |-> [s EXCEPT !.buf = buf], res |-> r,
             calls |-> <<CsCall(1, s.op),
                         TxrxCall(Frame(buf, 1 + cfg.addr_sz + cfg.addr_dummy_sz),
                                  s.len, -1, r, s.op)>>]
    [] s.op = "FAST_READ" ->
         LET buf1 == PutAddress([s.buf EXCEPT ![0] = cmd_tbl.read_data_fast], s.addr)
             buf == [buf1 EXCEPT ![1 + cfg.addr_sz + 1] = 0]
         IN [spi |-> [s EXCEPT !.buf = buf], res |-> r,
             calls |-> <<CsCall(1, s.op),
                         TxrxCall(Frame(buf, 1 + cfg.addr_sz + 1 + cfg.addr_dummy_sz),
                                  s.len, -1, r, s.op)>>]
    [] s.op = "READ_JEDEC" ->
         [spi |-> s, res |-> r,
          calls |-> <<CsCall(1, s.op), TxrxCall(<<cmd_tbl.jedec_id>>, 3, -1, r, s.op)>>]
    [] s.op = "READ_PRODUCT" ->
         [spi |-> s, res |-> r,
          calls |-> <<CsCall(1, s.op), TxrxCall(<<cmd_tbl.device_id>>, 3, -1, r, s.op)>>]
    [] s.op \in {"READ_SR", "READ_SR_BUSY"} ->
         [spi |-> s, res |-> r,
          calls |-> <<CsCall(1, s.op), TxrxCall(<<cmd_tbl.read_sr>>, 1, -1, r, s.op)>>]
    [] s.op = "READ_REG" ->
         [spi |-> s, res |-> r,
          calls |-> <<CsCall(1, s.op), TxrxCall(<<s.buf[0]>>, 1, -1, r, s.op)>>]
    [] s.op = "WRITE_REG_sWREN" -> BeginWren(s, r, s.op)
    [] s.op \in {"WRITE_REG_DATA", "WRITE_REG_sDATAWAIT"} ->
         [spi |-> [s EXCEPT !.busy_check_wait =
                              IF s.op = "WRITE_REG_DATA" THEN BCW_IDLE ELSE BCW_WAIT],
          res |-> r,
          calls |-> <<CsCall(1, s.op), TxrxCall(Frame(s.buf, 2), 0, -1, r, s.op)>>]
    [] OTHER -> [spi |-> s, res |-> SPIFLASH_ERR_INTERNAL, calls |-> <<>>]

---------------------------------------------------------------------------
\* spiflash.c:396-502: the switch on spi->op that handles the result of a step
HandleResult(s) ==
  LET Next(op) == [spi |-> [s EXCEPT !.op = op], res |-> SPIFLASH_OK, calls |-> <<>>]
      AfterWren(op) == [spi |-> [s EXCEPT !.op = op], res |-> SPIFLASH_OK,
                        calls |-> <<CsCall(0, s.op)>>]
  IN CASE s.op = "WRITE_sWREN" -> AfterWren("WRITE_sADDR")
       [] s.op = "WRITE_sADDR" -> Next("WRITE_sDATA")
       [] s.op = "WRITE_sDATA" ->
            Next(IF s.len = 0 THEN SPIFLASH_OP_IDLE ELSE "WRITE_sWREN")
       [] s.op = "ERASE_BLOCK_sWREN" -> AfterWren("ERASE_BLOCK_sERAS")
       [] s.op = "ERASE_BLOCK_sERAS" ->
            Next(IF s.len = 0 THEN SPIFLASH_OP_IDLE ELSE "ERASE_BLOCK_sWREN")
       [] s.op = "WRITE_SR_sWREN" -> AfterWren("WRITE_SR_sDATA")
       [] s.op = "WRITE_SR_sDATA" -> Next(SPIFLASH_OP_IDLE)
       [] s.op = "ERASE_CHIP_sWREN" -> AfterWren("ERASE_CHIP_sERAS")
       [] s.op = "ERASE_CHIP_sERAS" -> Next(SPIFLASH_OP_IDLE)
       [] s.op \in OpsSingle -> Next(SPIFLASH_OP_IDLE)
       [] s.op = "WRITE_REG_sWREN" -> AfterWren("WRITE_REG_sDATAWAIT")
       [] s.op \in {"WRITE_REG_sDATAWAIT", "WRITE_REG_DATA"} -> Next(SPIFLASH_OP_IDLE)
       [] OTHER -> [spi |-> s, res |-> SPIFLASH_ERR_INTERNAL, calls |-> <<>>]

\* faulty variant: the next step is set up but its transaction is not issued
Continue_NoTransaction(pre, b) == [spi |-> b.spi, res |-> SPIFLASH_OK, calls |-> pre]

\* spiflash.c:506: res = _spiflash_begin_async(spi), after the HAL calls pre
Continue(pre, b) == [spi |-> b.spi, res |-> b.res, calls |-> pre \o b.calls]

\* spiflash.c:504-514: what follows the result switch, whose outcome is h
EndTail(h, pre, r, sr) ==
  IF h.res = SPIFLASH_OK /\ h.spi.op # SPIFLASH_OP_IDLE
    THEN Continue(pre \o h.calls, spiflash_begin_async(h.spi, r, sr))
    ELSE [spi |-> spiflash_finalize(h.spi), res |-> h.res,
          calls |-> pre \o h.calls \o <<CsCall(0, "finish")>>]

\* spiflash.c:395-514: the result switch and what follows it; pre are the HAL
\* calls end_async made before reaching the switch
EndAdvance(s, pre, r, sr) == EndTail(HandleResult(s), pre, r, sr)

\* spiflash.c:349-360: the busy pre-check has been answered
EndPreCheck(s, r, sr) ==
  IF spiflash_is_hwbusy(s.buf[0]) # 0
    THEN [spi |-> s, res |-> SPIFLASH_ERR_HW_BUSY, calls |-> <<CsCall(0, "precheck")>>]
    ELSE spiflash_begin_async([s EXCEPT !.busy_pre_check = 0], r, sr)

\* faulty variant: a busy status answer returns OK without the wait call
EndBcwBusy_NoWait(s, ms) ==
  [spi |-> [s EXCEPT !.wait_period_ms = ms, !.busy_check_wait = BCW_READ_SR],
   res |-> SPIFLASH_OK,
   calls |-> <<CsCall(0, "bcw_check")>>]

\* spiflash.c:377-384: BCW_CHECK when the status byte in sr_data is busy
EndBcwBusy(s, ms) ==
  [spi |-> [s EXCEPT !.wait_period_ms = ms, !.busy_check_wait = BCW_READ_SR],
   res |-> SPIFLASH_OK,
   calls |-> <<CsCall(0, "bcw_check"), WaitCall(ms, "bcw_check")>>]

\* faulty variant: an error handed in ends the operation without the finalize
spiflash_end_async_NoFinalize(s, res, r, sr) ==
  IF res # SPIFLASH_OK
    THEN [spi |-> s, res |-> res, calls |-> <<>>]
    ELSE EndAdvance(s, <<>>, r, sr)

\* spiflash.c:342-515.  res is the completion result handed in; r and sr are
\* the return value and the status answer of the txrx this entry issues.
spiflash_end_async(s, res, r, sr) ==
  IF res # SPIFLASH_OK
    THEN [spi |-> spiflash_finalize(s), res |-> res, calls |-> <<>>]
  ELSE IF s.busy_pre_check # 0 THEN EndPreCheck(s, r, sr)
  ELSE IF s.busy_check_wait = BCW_CHECK /\ spiflash_is_hwbusy(s.buf[0]) = 0
    THEN \* spiflash.c:385-388: not busy, break into the result switch
         EndAdvance([s EXCEPT !.busy_check_wait = BCW_IDLE],
                    <<CsCall(0, "bcw_check")>>, r, sr)
  ELSE CASE s.busy_check_wait = BCW_WAIT ->
         [spi |-> [s EXCEPT !.busy_check_wait =
                              IF s.wait_period_ms = 0 THEN BCW_IDLE ELSE BCW_READ_SR],
          res |-> SPIFLASH_OK,
          calls |-> <<CsCall(0, "bcw_wait"), WaitCall(s.wait_period_ms, "bcw_wait")>>]
    [] s.busy_check_wait = BCW_READ_SR ->
         [spi |-> ReadSrIntoSrData([s EXCEPT !.busy_check_wait = BCW_CHECK], r, sr),
          res |-> r,
          calls |-> <<CsCall(1, "bcw_read_sr"),
                      TxrxCall(<<cmd_tbl.read_sr>>, 1, sr, r, "bcw_read_sr")>>]
    [] s.busy_check_wait = BCW_CHECK -> EndBcwBusy(s, DECR_WAIT(s.wait_period_ms))
    [] OTHER -> EndAdvance(s, <<>>, r, sr)

\* faulty variant: the operation is taken before _spiflash_end_async has run
TriggerOpBefore(s, e) ==
  [spi |-> IF e.res # SPIFLASH_OK THEN [e.spi EXCEPT !.op = SPIFLASH_OP_IDLE] ELSE e.spi,
   res |-> e.res,
   calls |-> e.calls,
   cb |-> (e.res # SPIFLASH_OK \/ e.spi.op = SPIFLASH_OP_IDLE) /\ s.async # 0,
   cb_op |-> s.op,
   cb_err |-> e.res]

\* spiflash.c:561-571: SPIFLASH_async_trigger after _spiflash_end_async has
\* returned e.  cb tells whether spi->async_cb was called, cb_op and cb_err
\* its operation and err_code arguments.
TriggerDone(s, e) ==
  [spi |-> IF e.res # SPIFLASH_OK THEN [e.spi EXCEPT !.op = SPIFLASH_OP_IDLE] ELSE e.spi,
   res |-> e.res,
   calls |-> e.calls,
   cb |-> (e.res # SPIFLASH_OK \/ e.spi.op = SPIFLASH_OP_IDLE) /\ s.async # 0,
   cb_op |-> e.spi.op,
   cb_err |-> e.res]

\* spiflash.c:560-572
SPIFLASH_async_trigger(s, err_code, r, sr) ==
  TriggerDone(s, spiflash_end_async(s, err_code, r, sr))

---------------------------------------------------------------------------
(* The environment: what the HAL and the chip may answer *)
TransportErr == -1                        \* a non-zero spi_txrx return value
HostErr == -2                             \* a non-zero err_code given to async_trigger
TxrxResults == {SPIFLASH_OK, TransportErr}
TriggerCodes == {SPIFLASH_OK, HostErr}
StatusBytes == {0, 1, 2}                  \* ready, busy, ready with another bit set

\* env.results: the values spi_txrx may return; env.codes: the err_code values
\* the host may give async_trigger; env.status: the status bytes the chip may
\* answer; env.max_busy: busy status answers per operation; env.max_req:
\* accepted requests per run
Environment(results, codes, status, max_busy, max_req) ==
  [results |-> results, codes |-> codes, status |-> status,
   max_busy |-> max_busy, max_req |-> max_req]

NoArgs == [addr |-> 0, len |-> 0, b0 |-> 0, b1 |-> 0, write_en |-> 0, wait_ms |-> 0]

\* the HAL request an engine entry left outstanding (async mode)
Outstanding(calls) ==
  IF calls = <<>> THEN "none"
  ELSE LET c == calls[Len(calls)]
       IN IF c.k = "wait" THEN "wait"
          ELSE IF c.k = "txrx" THEN (IF c.a = SPIFLASH_OK THEN "txrx" ELSE "failed")
          ELSE "none"

LastCs(calls, old) ==
  LET idx == {i \in 1..Len(calls) : calls[i].k = "cs"}
  IN IF idx = {} THEN old
     ELSE calls[CHOOSE i \in idx : \A j \in idx : j <= i].a

\* the busy status answers among calls (a status byte is delivered on success)
BusyAnswers(calls) ==
  Cardinality({i \in 1..Len(calls) :
                 /\ calls[i].k = "txrx" /\ calls[i].rxv # -1 /\ calls[i].a = SPIFLASH_OK
                 /\ spiflash_is_hwbusy(calls[i].rxv) # 0})

Event(kind, name, ret) ==
  [kind |-> kind, name |-> name, args |-> NoArgs, ret |-> ret, err_in |-> 0,
   cb |-> FALSE, cb_op |-> SPIFLASH_OP_IDLE, cb_err |-> 0]

\* faulty variant: the driver structure is not cleared, tx_internal_buf holds
\* what the memory held
SPIFLASH_init_NoMemset(async) ==
  [async |-> async, op |-> SPIFLASH_OP_IDLE, wait_period_ms |-> 0, addr |-> 0,
   len |-> 0, ptr |-> 0, could_be_busy |-> 0, busy_pre_check |-> 0,
   busy_check_wait |-> 0, buf |-> [i \in 0..(BufLen - 1) |-> 255]]

\* spiflash.c:541-557
SPIFLASH_init(async) ==
  [async |-> async, op |-> SPIFLASH_OP_IDLE, wait_period_ms |-> 0, addr |-> 0,
   len |-> 0, ptr |-> 0, could_be_busy |-> 0, busy_pre_check |-> 0,
   busy_check_wait |-> 0, buf |-> [i \in 0..(BufLen - 1) |-> 0]]

InitWith(Configs, Tables, Modes, e) ==
  /\ env = e
  /\ cfg \in Configs
  /\ cmd_tbl \in Tables
  /\ \E m \in Modes : spi = SPIFLASH_init(m)
  /\ cs_pin = 0
  /\ pending = "none"
  /\ trace = <<>>
  /\ ev = Event("init", "init", 0)
  /\ req = [name |-> "none", args |-> NoArgs, cbb |-> 0, returned |-> TRUE,
            ret |-> 0, cbs |-> <<>>, start |-> spi]
  /\ pc = "none"
  /\ sync_res = 0
  /\ nreq = 0
  /\ nbusy = 0

\* spiflash.c:750-752: a request that found op Idle returns code before it
\* has changed anything
Return(name, args, code) ==
  /\ nreq < env.max_req
  /\ nreq' = nreq + 1
  /\ ev' = [Event("req", name, code) EXCEPT !.args = args]
  /\ UNCHANGED <<cfg, cmd_tbl, env, spi, cs_pin, pending, trace, req, pc, sync_res, nbusy>>

\* if (spi->op != SPIFLASH_OP_IDLE) return SPIFLASH_ERR_BUSY;
Refuse(code) ==
  /\ ev' = Event("req", "refused", code)
  /\ UNCHANGED <<cfg, cmd_tbl, env, spi, cs_pin, pending, trace, req, pc, sync_res, nreq, nbusy>>

\* spiflash.c:518-538: _spiflash_exe on the seeded state s.  In async mode the
\* request returns after the first begin; in sync mode it stays in the while
\* loop (pc = "loop") unless the loop condition fails at once.
spiflash_exe(name, args, s) ==
  \E r \in env.results, sr \in env.status :
  \E b \in {spiflash_begin_async(IF s.could_be_busy # 0
                                   THEN [s EXCEPT !.busy_pre_check = 1] ELSE s, r, sr)} :
  LET loops == s.async = 0 /\ b.res = SPIFLASH_OK /\ b.spi.op # SPIFLASH_OP_IDLE
  IN /\ nreq < env.max_req
     /\ BusyAnswers(b.calls) <= env.max_busy
     /\ nreq' = nreq + 1
     /\ nbusy' = BusyAnswers(b.calls)
     /\ trace' = b.calls
     /\ cs_pin' = LastCs(b.calls, cs_pin)
     /\ spi' = IF s.async # 0 \/ loops THEN b.spi ELSE spiflash_finalize(b.spi)
     /\ pending' = IF s.async # 0 THEN Outstanding(b.calls) ELSE "none"
     /\ pc' = IF loops THEN "loop" ELSE "none"
     /\ sync_res' = IF loops THEN b.res ELSE 0
     /\ ev' = [Event(IF loops THEN "call" ELSE "req", name, b.res) EXCEPT !.args = args]
     /\ req' = [name |-> name, args |-> args, cbb |-> s.could_be_busy,
                returned |-> ~loops, ret |-> b.res, cbs |-> <<>>, start |-> s]
     /\ UNCHANGED <<cfg, cmd_tbl, env>>

\* A deterministic HAL: H[k] is what the k-th spi_txrx of an operation does,
\* its result r and the status byte sr the chip answers; calls beyond the end
\* of H succeed on a ready chip.
HalResult(H, k) == IF k \in 1..Len(H) THEN H[k].r ELSE SPIFLASH_OK
HalStatus(H, k) == IF k \in 1..Len(H) THEN H[k].sr ELSE 0

TxrxCount(calls) == Cardinality({i \in 1..Len(calls) : calls[i].k = "txrx"})

\* spiflash.c:531-535 as a function of the HAL: the while loop of the blocking
\* call from the state s and result res, after k spi_txrx calls, and the
\* finalize that follows it
RECURSIVE BlockingLoop(_, _, _, _, _)
RECURSIVE BlockingTurn(_, _, _, _)
BlockingLoop(s, res, calls, k, H) ==
  IF res = SPIFLASH_OK /\ s.op # SPIFLASH_OP_IDLE
    THEN BlockingTurn(SPIFLASH_async_trigger(s, res, HalResult(H, k + 1),
                                             HalStatus(H, k + 1)),
                      calls, k, H)
    ELSE [spi |-> spiflash_finalize(s), res |-> res, calls |-> calls]

\* spiflash.c:532: res = SPIFLASH_async_trigger(spi, res) has returned t
BlockingTurn(t, calls, k, H) ==
  BlockingLoop(t.spi, t.res, calls \o t.calls, k + TxrxCount(t.calls), H)

\* faulty variant: the result of the first step is not looked at
BlockingStart_IgnoresFirst(b, H) ==
  BlockingLoop(b.spi, SPIFLASH_OK, b.calls, TxrxCount(b.calls), H)

\* spiflash.c:529-535: the blocking branch once the first begin returned b
BlockingStart(b, H) ==
  BlockingLoop(b.spi, b.res, b.calls, TxrxCount(b.calls), H)

\* spiflash.c:518-538 for spi->async = 0, as a function of the seeded state s
\* and the HAL: the state, the result and the HAL calls of the blocking call
spiflash_exe_blocking(s, H) ==
  BlockingStart(spiflash_begin_async(IF s.could_be_busy # 0
                                       THEN [s EXCEPT !.busy_pre_check = 1] ELSE s,
                                     HalResult(H, 1), HalStatus(H, 1)),
                H)

\* spiflash.c:531-534: one turn of the while loop of the blocking call, and the
\* finalize and return that follow when the loop condition fails
SyncLoop ==
  /\ pc = "loop"
  /\ \E r \in env.results, sr \in env.status :
     \E t \in {SPIFLASH_async_trigger(spi, sync_res, r, sr)} :
     LET loops == t.res = SPIFLASH_OK /\ t.spi.op # SPIFLASH_OP_IDLE
     IN /\ nbusy + BusyAnswers(t.calls) <= env.max_busy
        /\ nbusy' = nbusy + BusyAnswers(t.calls)
        /\ trace' = trace \o t.calls
        /\ cs_pin' = LastCs(t.calls, cs_pin)
        /\ spi' = IF loops THEN t.spi ELSE spiflash_finalize(t.spi)
        /\ pc' = IF loops THEN "loop" ELSE "none"
        /\ sync_res' = IF loops THEN t.res ELSE 0
        /\ ev' = Event(IF loops THEN "step" ELSE "ret", req.name, t.res)
        /\ req' = [req EXCEPT !.returned = ~loops, !.ret = t.res]
        /\ UNCHANGED <<cfg, cmd_tbl, env, pending, nreq>>

\* the host calls SPIFLASH_async_trigger for the outstanding completion; after
\* a txrx that failed to start it may only report the failure (spiflash.h:434-446)
AsyncTrigger(err_code) ==
  /\ spi.async # 0
  /\ pending # "none"
  /\ pending = "failed" => err_code # SPIFLASH_OK
  /\ \E r \in env.results, sr \in env.status :
     \E t \in {SPIFLASH_async_trigger(spi, err_code, r, sr)} :
     LET o == Outstanding(t.calls)
     IN /\ nbusy + BusyAnswers(t.calls) <= env.max_busy
        /\ nbusy' = nbusy + BusyAnswers(t.calls)
        /\ trace' = trace \o t.calls
        /\ cs_pin' = LastCs(t.calls, cs_pin)
        /\ spi' = t.spi
        /\ pending' = IF o = "failed" THEN "none" ELSE o
        /\ ev' = [kind |-> "trig", name |-> req.name, args |-> NoArgs, ret |-> t.res,
                  err_in |-> err_code,
                  cb |-> t.cb, cb_op |-> t.cb_op, cb_err |-> t.cb_err]
        /\ req' = IF t.cb
                    THEN [req EXCEPT !.cbs = Append(@, [op |-> t.cb_op, err |-> t.cb_err])]
                    ELSE req
        /\ UNCHANGED <<cfg, cmd_tbl, env, pc, sync_res, nreq>>

\* the host calls SPIFLASH_async_trigger although the driver is Idle and no
\* completion is outstanding (spiflash.c:560-572 entered with op Idle); the
\* call counts as one of the env.max_req host calls of the run
TriggerWhileIdle(err_code) ==
  /\ spi.async # 0
  /\ spi.op = SPIFLASH_OP_IDLE
  /\ pending = "none"
  /\ nreq < env.max_req
  /\ \E r \in env.results, sr \in env.status :
     \E t \in {SPIFLASH_async_trigger(spi, err_code, r, sr)} :
     LET o == Outstanding(t.calls)
     IN /\ nbusy + BusyAnswers(t.calls) <= env.max_busy
        /\ nbusy' = nbusy + BusyAnswers(t.calls)
        /\ nreq' = nreq + 1
        /\ trace' = trace \o t.calls
        /\ cs_pin' = LastCs(t.calls, cs_pin)
        /\ spi' = t.spi
        /\ pending' = IF o = "failed" THEN "none" ELSE o
        /\ ev' = [kind |-> "idle_trig", name |-> "async_trigger", args |-> NoArgs,
                  ret |-> t.res, err_in |-> err_code,
                  cb |-> t.cb, cb_op |-> t.cb_op, cb_err |-> t.cb_err]
        /\ UNCHANGED <<cfg, cmd_tbl, env, req, pc, sync_res>>

\* faulty variant: the trigger puts op back to Idle after the callback
TriggerReturn_ResetsOp(c) == [c EXCEPT !.op = SPIFLASH_OP_IDLE]

\* spiflash.c:567-571: what SPIFLASH_async_trigger does to the driver after
\* spi->async_cb has returned with the driver in state c: it returns res
TriggerReturn(c) == c

\* public requests as the state they seed before they call _spiflash_exe:
\* spiflash.c:580-584 (write), 597-601 (read), 663-665 (read_sr), 694-696
\* (write_sr)
SeededBy(s, name, args) ==
  CASE name = "write" ->
         [s EXCEPT !.addr = args.addr, !.ptr = 0, !.len = args.len, !.op = "WRITE_sWREN"]
    [] name = "read" ->
         [s EXCEPT !.addr = args.addr, !.ptr = 0, !.len = args.len, !.op = "READ"]
    [] name = "read_sr" -> [s EXCEPT !.ptr = 0, !.op = "READ_SR"]
    [] name = "write_sr" -> [s EXCEPT !.buf[0] = args.b0, !.op = "WRITE_SR_sWREN"]

\* spiflash.c:575-588 called on the driver state c from inside the callback:
\* the refusal when op is not Idle, else the seeding and the asynchronous
\* branch of _spiflash_exe (spiflash.c:521-528)
RequestInCallback(c, name, args, r, sr) ==
  IF c.op # SPIFLASH_OP_IDLE
    THEN [spi |-> c, res |-> SPIFLASH_ERR_BUSY, calls |-> <<>>]
    ELSE spiflash_begin_async(
           IF c.could_be_busy # 0
             THEN [SeededBy(c, name, args) EXCEPT !.busy_pre_check = 1]
             ELSE SeededBy(c, name, args),
           r, sr)

\* the driver state on entry of the _spiflash_exe of that request
EnteredWith(c, name, args) ==
  IF c.op # SPIFLASH_OP_IDLE THEN c ELSE SeededBy(c, name, args)

\* spiflash.c:560-572 with a callback that issues the public request name(args):
\* the trigger t has invoked spi->async_cb, the request made there returned b
\* (its first step answered r2, sr2 being given to spiflash_begin_async), and
\* the trigger returns
TriggerWithRequest(t, b, name, args) ==
  /\ t.cb
  /\ nreq < env.max_req
  /\ BusyAnswers(b.calls) <= env.max_busy
  /\ nreq' = nreq + 1
  /\ nbusy' = BusyAnswers(b.calls)
  /\ trace' = b.calls
  /\ cs_pin' = LastCs(t.calls \o b.calls, cs_pin)
  /\ spi' = TriggerReturn(b.spi)
  /\ pending' = Outstanding(b.calls)
  /\ ev' = [kind |-> "cb_req", name |-> name, args |-> args, ret |-> b.res,
            err_in |-> 0, cb |-> TRUE, cb_op |-> t.cb_op, cb_err |-> t.cb_err]
  /\ req' = [name |-> name, args |-> args, cbb |-> t.spi.could_be_busy,
             returned |-> TRUE, ret |-> b.res, cbs |-> <<>>,
             start |-> EnteredWith(t.spi, name, args)]
  /\ UNCHANGED <<cfg, cmd_tbl, env, pc, sync_res>>

\* the host calls SPIFLASH_async_trigger for the outstanding completion, and
\* its callback issues the request name(args)
AsyncTriggerReentrant(err_code, name, args) ==
  /\ spi.async # 0
  /\ pending # "none"
  /\ pending = "failed" => err_code # SPIFLASH_OK
  /\ \E r \in env.results, sr \in env.status :
     \E t \in {SPIFLASH_async_trigger(spi, err_code, r, sr)} :
     \E r2 \in env.results, sr2 \in env.status :
     \E b \in {RequestInCallback(t.spi, name, args, r2, sr2)} :
       /\ nbusy + BusyAnswers(t.calls) <= env.max_busy
       /\ TriggerWithRequest(t, b, name, args)

\* the host sets the public hint spi->could_be_busy between operations
SetCouldBeBusy(v) ==
  /\ spi.op = SPIFLASH_OP_IDLE
  /\ pc = "none"
  /\ spi.could_be_busy # v
  /\ spi' = [spi EXCEPT !.could_be_busy = v]
  /\ ev' = Event("set", "could_be_busy", v)
  /\ UNCHANGED <<cfg, cmd_tbl, env, cs_pin, pending, trace, req, pc, sync_res, nreq, nbusy>>

---------------------------------------------------------------------------
(* Faulty variants of the program, each of which a property has to tell apart *)

\* a write_reg that seeds the scratch bytes before it looks at op
SPIFLASH_write_reg_SeedsFirst(reg, data, write_en, wait_ms) ==
  /\ pc = "none"
  /\ IF spi.op # SPIFLASH_OP_IDLE
       THEN /\ spi' = [spi EXCEPT !.buf[0] = reg, !.buf[1] = data]
            /\ ev' = Event("req", "refused", SPIFLASH_ERR_BUSY)
            /\ UNCHANGED <<cfg, cmd_tbl, env, cs_pin, pending, trace, req, pc, sync_res,
                           nreq, nbusy>>
       ELSE spiflash_exe("write_reg",
              [NoArgs EXCEPT !.b0 = reg, !.b1 = data, !.write_en = write_en,
                             !.wait_ms = wait_ms],
              [spi EXCEPT !.buf[0] = reg, !.buf[1] = data,
                          !.op = IF write_en # 0 THEN "WRITE_REG_sWREN" ELSE "WRITE_REG_DATA",
                          !.wait_period_ms = IF write_en # 0 THEN wait_ms ELSE @])

---------------------------------------------------------------------------
(* The public requests, spiflash.c:574-775 *)

\* spiflash.c:574-589
SPIFLASH_write(addr, len) ==
  /\ pc = "none"
  /\ IF spi.op # SPIFLASH_OP_IDLE THEN Refuse(SPIFLASH_ERR_BUSY)
     ELSE spiflash_exe("write", [NoArgs EXCEPT !.addr = addr, !.len = len],
            [spi EXCEPT !.addr = addr, !.ptr = 0, !.len = len, !.op = "WRITE_sWREN"])

\* spiflash.c:591-606
SPIFLASH_read(addr, len) ==
  /\ pc = "none"
  /\ IF spi.op # SPIFLASH_OP_IDLE THEN Refuse(SPIFLASH_ERR_BUSY)
     ELSE spiflash_exe("read", [NoArgs EXCEPT !.addr = addr, !.len = len],
            [spi EXCEPT !.addr = addr, !.ptr = 0, !.len = len, !.op = "READ"])

\* faulty variant: a fast read that does not look at cmd_tbl->read_data_fast
SPIFLASH_fast_read_NoFallback(addr, len) ==
  /\ pc = "none"
  /\ IF spi.op # SPIFLASH_OP_IDLE THEN Refuse(SPIFLASH_ERR_BUSY)
     ELSE spiflash_exe("fast_read", [NoArgs EXCEPT !.addr = addr, !.len = len],
            [spi EXCEPT !.addr = addr, !.ptr = 0, !.len = len, !.op = "FAST_READ"])

\* spiflash.c:608-624
SPIFLASH_fast_read(addr, len) ==
  /\ pc = "none"
  /\ IF spi.op # SPIFLASH_OP_IDLE THEN Refuse(SPIFLASH_ERR_BUSY)
     ELSE spiflash_exe("fast_read", [NoArgs EXCEPT !.addr = addr, !.len = len],
            [spi EXCEPT !.addr = addr, !.ptr = 0, !.len = len,
                        !.op = IF cmd_tbl.read_data_fast # 0 THEN "FAST_READ" ELSE "READ"])

\* spiflash.c:627-640
SPIFLASH_read_jedec_id ==
  /\ pc = "none"
  /\ IF spi.op # SPIFLASH_OP_IDLE THEN Refuse(SPIFLASH_ERR_BUSY)
     ELSE spiflash_exe("read_jedec_id", NoArgs,
            [spi EXCEPT !.ptr = 0, !.op = "READ_JEDEC"])

\* spiflash.c:642-655
SPIFLASH_read_product_id ==
  /\ pc = "none"
  /\ IF spi.op # SPIFLASH_OP_IDLE THEN Refuse(SPIFLASH_ERR_BUSY)
     ELSE spiflash_exe("read_product_id", NoArgs,
            [spi EXCEPT !.ptr = 0, !.op = "READ_PRODUCT"])

\* spiflash.c:657-670
SPIFLASH_read_sr ==
  /\ pc = "none"
  /\ IF spi.op # SPIFLASH_OP_IDLE THEN Refuse(SPIFLASH_ERR_BUSY)
     ELSE spiflash_exe("read_sr", NoArgs,
            [spi EXCEPT !.ptr = 0, !.op = "READ_SR"])

\* spiflash.c:672-685
SPIFLASH_read_sr_busy ==
  /\ pc = "none"
  /\ IF spi.op # SPIFLASH_OP_IDLE THEN Refuse(SPIFLASH_ERR_BUSY)
     ELSE spiflash_exe("read_sr_busy", NoArgs,
            [spi EXCEPT !.ptr = 0, !.op = "READ_SR_BUSY"])

\* spiflash.c:688-701: spi->sr_data is the first byte of the scratch union
SPIFLASH_write_sr(srv) ==
  /\ pc = "none"
  /\ IF spi.op # SPIFLASH_OP_IDLE THEN Refuse(SPIFLASH_ERR_BUSY)
     ELSE spiflash_exe("write_sr", [NoArgs EXCEPT !.b0 = srv],
            [spi EXCEPT !.buf[0] = srv, !.op = "WRITE_SR_sWREN"])

\* spiflash.c:704-718: spi->reg_nbr is the first byte of the scratch union
SPIFLASH_read_reg(reg) ==
  /\ pc = "none"
  /\ IF spi.op # SPIFLASH_OP_IDLE THEN Refuse(SPIFLASH_ERR_BUSY)
     ELSE spiflash_exe("read_reg", [NoArgs EXCEPT !.b0 = reg],
            [spi EXCEPT !.buf[0] = reg, !.ptr = 0, !.op = "READ_REG"])

\* spiflash.c:721-739
SPIFLASH_write_reg(reg, data, write_en, wait_ms) ==
  /\ pc = "none"
  /\ IF spi.op # SPIFLASH_OP_IDLE THEN Refuse(SPIFLASH_ERR_BUSY)
     ELSE spiflash_exe("write_reg",
            [NoArgs EXCEPT !.b0 = reg, !.b1 = data, !.write_en = write_en,
                           !.wait_ms = wait_ms],
            [spi EXCEPT !.buf[0] = reg, !.buf[1] = data,
                        !.op = IF write_en # 0 THEN "WRITE_REG_sWREN" ELSE "WRITE_REG_DATA",
                        !.wait_period_ms = IF write_en # 0 THEN wait_ms ELSE @])

\* spiflash.c:742-762
SPIFLASH_erase(addr, len) ==
  /\ pc = "none"
  /\ IF spi.op # SPIFLASH_OP_IDLE THEN Refuse(SPIFLASH_ERR_BUSY)
     ELSE IF spiflash_get_largest_erase_area(addr, len) = 0
       THEN Return("erase", [NoArgs EXCEPT !.addr = addr, !.len = len],
                   SPIFLASH_ERR_ERASE_UNALIGNED)
     ELSE spiflash_exe("erase", [NoArgs EXCEPT !.addr = addr, !.len = len],
            [spi EXCEPT !.addr = addr, !.len = len, !.op = "ERASE_BLOCK_sWREN"])

\* spiflash.c:764-775
SPIFLASH_chip_erase ==
  /\ pc = "none"
  /\ IF spi.op # SPIFLASH_OP_IDLE THEN Refuse(SPIFLASH_ERR_BUSY)
     ELSE spiflash_exe("chip_erase", NoArgs,
            [spi EXCEPT !.op = "ERASE_CHIP_sWREN"])

---------------------------------------------------------------------------
(* Configurations and command tables *)

\* spiflash.h:59-77
SPIFLASH_CMD_TBL_STANDARD ==
  [write_disable |-> 4, write_enable |-> 6, page_program |-> 2, read_data |-> 3,
   read_data_fast |-> 11, write_sr |-> 1, read_sr |-> 5,
   block_erase_4 |-> 32, block_erase_8 |-> 0, block_erase_16 |-> 0,
   block_erase_32 |-> 82, block_erase_64 |-> 216, chip_erase |-> 199,
   device_id |-> 144, jedec_id |-> 159, sr_busy_bit |-> 1]

\* a chip with 8K and 16K erase blocks only and no fast read
TblNoFast ==
  [SPIFLASH_CMD_TBL_STANDARD EXCEPT !.read_data_fast = 0, !.block_erase_4 = 0,
     !.block_erase_8 = 64, !.block_erase_16 = 65, !.block_erase_32 = 0,
     !.block_erase_64 = 0]

\* a chip with 4K erase blocks only
TblOnly4K ==
  [SPIFLASH_CMD_TBL_STANDARD EXCEPT !.block_erase_32 = 0, !.block_erase_64 = 0]

\* spiflash.h:167-198: a 3-byte big-endian chip (the page size is scaled down)
CfgBig ==
  [sz |-> 1048576, page_sz |-> 4, addr_sz |-> 3, addr_dummy_sz |-> 0, addr_endian |-> 1,
   sr_write_ms |-> 2, page_program_ms |-> 3, block_erase_4_ms |-> 5,
   block_erase_8_ms |-> 6, block_erase_16_ms |-> 7, block_erase_32_ms |-> 8,
   block_erase_64_ms |-> 9, chip_erase_ms |-> 10]

\* a 2-byte little-endian chip with one dummy byte and the busy pin wired
\* (all times 0, spiflash.h:161-166)
CfgLittleZero ==
  [sz |-> 65536, page_sz |-> 4, addr_sz |-> 2, addr_dummy_sz |-> 1, addr_endian |-> 0,
   sr_write_ms |-> 0, page_program_ms |-> 0, block_erase_4_ms |-> 0,
   block_erase_8_ms |-> 0, block_erase_16_ms |-> 0, block_erase_32_ms |-> 0,
   block_erase_64_ms |-> 0, chip_erase_ms |-> 0]

---------------------------------------------------------------------------
(* The driver under every public request, in both modes *)
Modes == {0, 1}     \* SPIFLASH_SYNCHRONOUS, SPIFLASH_ASYNCHRONOUS (spiflash.h:79-80)

MaxReq == 1      \* accepted requests per run
MaxBusy == 1     \* busy status answers per operation

Init == InitWith({CfgBig, CfgLittleZero}, {SPIFLASH_CMD_TBL_STANDARD}, Modes,
                 Environment(TxrxResults, TriggerCodes, {0, 1}, MaxBusy, MaxReq))

Engine ==
  \/ \E e \in env.codes : AsyncTrigger(e)
  \/ SyncLoop

Next ==
  \/ SPIFLASH_write(3, 2)
  \/ SPIFLASH_read(8192, 2)
  \/ SPIFLASH_fast_read(8192, 2)
  \/ \E len \in {4096, 8192, 6144} : SPIFLASH_erase(0, len)
  \/ SPIFLASH_chip_erase
  \/ SPIFLASH_read_sr
  \/ SPIFLASH_read_sr_busy
  \/ SPIFLASH_write_sr(2)
  \/ SPIFLASH_read_jedec_id
  \/ SPIFLASH_read_product_id
  \/ SPIFLASH_read_reg(53)
  \/ \E we \in {0, 1} : SPIFLASH_write_reg(49, 2, we, 4)
  \/ \E v \in {0, 1} : SetCouldBeBusy(v)
  \/ Engine

Spec == Init /\ [][Next]_vars

---------------------------------------------------------------------------
(* Properties checked under Spec *)

\* the states of spi->op that belong to a public request
OpsOf(name) ==
  CASE name = "write" -> OpsWrite
    [] name = "erase" -> OpsErase
    [] name = "chip_erase" -> OpsChipErase
    [] name = "write_sr" -> OpsWriteSr
    [] name = "write_reg" -> OpsWriteReg
    [] name = "read" -> {"READ"}
    [] name = "fast_read" -> {"FAST_READ", "READ"}
    [] name = "read_sr" -> {"READ_SR"}
    [] name = "read_sr_busy" -> {"READ_SR_BUSY"}
    [] name = "read_jedec_id" -> {"READ_JEDEC"}
    [] name = "read_product_id" -> {"READ_PRODUCT"}
    [] name = "read_reg" -> {"READ_REG"}
    [] OTHER -> {}

\* C1: a public request made while op is not Idle returns BusyDriver, makes no
\* HAL call and leaves every field of the driver unchanged.
C1_Serialization ==
  [][(ev'.kind \in {"req", "call"} /\ pc = "none" /\ spi.op # SPIFLASH_OP_IDLE)
       => /\ ev'.ret = SPIFLASH_ERR_BUSY
          /\ UNCHANGED <<cfg, cmd_tbl, spi, cs_pin, pending, trace, req, pc, sync_res,
                         nreq, nbusy>>]_vars

\* C1 witness: a request was refused with BusyDriver while an asynchronous
\* operation had a completion outstanding.
C1_Witness ==
  /\ ev.kind = "req" /\ ev.ret = SPIFLASH_ERR_BUSY
  /\ spi.op # SPIFLASH_OP_IDLE /\ pending \in {"txrx", "wait"}

\* C2: in synchronous mode, after a public request has returned (with OK or
\* with an error other than the refusal BusyDriver), op is Idle.
C2_SyncReturnsIdle ==
  (spi.async = 0 /\ ev.kind \in {"req", "ret"} /\ ev.ret # SPIFLASH_ERR_BUSY)
    => spi.op = SPIFLASH_OP_IDLE

\* C3: whenever the async callback is invoked, op is Idle and the wait state
\* is cleared.  (Nothing runs in SPIFLASH_async_trigger after the callback, so
\* the state after the trigger is the state the callback sees.)
C3_CallbackSeesClearedState ==
  (ev.kind = "trig" /\ ev.cb)
    => /\ spi.op = SPIFLASH_OP_IDLE
       /\ spi.wait_period_ms = 0
       /\ spi.busy_pre_check = 0
       /\ spi.busy_check_wait = BCW_IDLE

\* the number of times the error of the current request was reported
ErrorReports ==
  (IF req.returned /\ req.ret # SPIFLASH_OK THEN 1 ELSE 0)
    + Cardinality({i \in 1..Len(req.cbs) : req.cbs[i].err # SPIFLASH_OK})

\* C4: in asynchronous mode the callback of an accepted request is invoked
\* exactly once, when the operation has reached Idle or an error and not
\* before, and an error is reported once.
C4_CallbackExactlyOnce ==
  (spi.async # 0 /\ req.name # "none")
    => /\ Len(req.cbs) <= 1
       /\ (Len(req.cbs) = 1 => spi.op = SPIFLASH_OP_IDLE)
       /\ ((spi.op = SPIFLASH_OP_IDLE \/ req.ret # SPIFLASH_OK) => Len(req.cbs) = 1)
       /\ ErrorReports <= 1

\* C5 as stated: the operation argument of the callback is a non-Idle state of
\* the request that finished or failed, and err_code is its result.
C5_CallbackOpIsCompletedOp ==
  (ev.kind = "trig" /\ ev.cb)
    => /\ ev.cb_op # SPIFLASH_OP_IDLE
       /\ ev.cb_op \in OpsOf(req.name)
       /\ ev.cb_err = ev.ret

\* C5 amended: err_code is the result of the operation (the value the trigger
\* returns, the host's code when the host reported a failure); on an error
\* the operation argument is the non-Idle state of the request that failed,
\* on success it is Idle.
C5_CallbackArguments ==
  (ev.kind = "trig" /\ ev.cb)
    => /\ ev.cb_err = ev.ret
       /\ (ev.err_in # SPIFLASH_OK => ev.cb_err = ev.err_in)
       /\ (ev.cb_err = SPIFLASH_OK => ev.cb_op = SPIFLASH_OP_IDLE /\ spi.op = SPIFLASH_OP_IDLE)
       /\ (ev.cb_err # SPIFLASH_OK => ev.cb_op \in OpsOf(req.name))

\* C5 witness: the callback was invoked for a failed operation, and the
\* failure came from the engine, not from the host.
C5_Witness ==
  /\ ev.kind = "trig" /\ ev.cb /\ ev.err_in = SPIFLASH_OK
  /\ ev.cb_err # SPIFLASH_OK /\ ev.cb_op # SPIFLASH_OP_IDLE

---------------------------------------------------------------------------
(* Reading the log of HAL calls of the current request *)

\* the spi_txrx calls that the steps named in ats made
TxrxAt(ats) == SelectSeq(trace, LAMBDA c : c.k = "txrx" /\ c.at \in ats)

RECURSIVE SumSeq(_, _)
SumSeq(f, n) == IF n = 0 THEN 0 ELSE f[n] + SumSeq(f, n - 1)

\* the address that a command frame carries after its opcode
DecodeAddress(tx) ==
  SumSeq([i \in 1..cfg.addr_sz |->
            tx[1 + i] * Pow2(8 * (IF cfg.addr_endian # 0 THEN cfg.addr_sz - i ELSE i - 1))],
         cfg.addr_sz)

\* the current request has completed with OK
CompletedOk ==
  IF spi.async = 0 THEN req.returned /\ req.ret = SPIFLASH_OK /\ pc = "none"
  ELSE Len(req.cbs) = 1 /\ req.cbs[1].err = SPIFLASH_OK

IsPow2(n) == n > 0 /\ LowBit(n) = n

---------------------------------------------------------------------------
(* Writes: page splitting *)

PageSizes == {2, 3, 4}
MaxWrAddr == 3
MaxWrLen == 5

InitWrite ==
  InitWith({[c EXCEPT !.page_sz = p] : c \in {CfgBig, CfgLittleZero}, p \in PageSizes},
           {SPIFLASH_CMD_TBL_STANDARD}, Modes,
           Environment(TxrxResults, TriggerCodes, {0}, 0, MaxReq))

NextWrite ==
  \/ \E addr \in 0..MaxWrAddr, len \in 0..MaxWrLen : SPIFLASH_write(addr, len)
  \/ \E e \in env.codes : AsyncTrigger(e)
  \/ SyncLoop

SpecWrite == InitWrite /\ [][NextWrite]_vars

\* [addr, addr+len) cut at each multiple of page
RECURSIVE PageSplit(_, _, _)
PageSplit(addr, len, page) ==
  IF len = 0 THEN <<>>
  ELSE LET chunk == Min(len, page - (addr % page))
       IN <<[addr |-> addr, size |-> chunk]>> \o PageSplit(addr + chunk, len - chunk, page)

\* the transport frames of a write are, three by three, the WREN frame, the
\* page-program frame with the address of the chunk and the payload of the
\* chunk, for the chunks of the list in order
FramesFollow(frames, chunks) ==
  /\ Len(frames) <= 3 * Len(chunks)
  /\ \A i \in 1..Len(frames) :
       LET c == chunks[((i - 1) \div 3) + 1]
           f == frames[i]
       IN CASE (i - 1) % 3 = 0 ->
                 f.at = "WRITE_sWREN" /\ f.tx = <<cmd_tbl.write_enable>>
            [] (i - 1) % 3 = 1 ->
                 /\ f.at = "WRITE_sADDR"
                 /\ Len(f.tx) = 1 + cfg.addr_sz + cfg.addr_dummy_sz
                 /\ f.tx[1] = cmd_tbl.page_program
                 /\ DecodeAddress(f.tx) = c.addr
            [] OTHER ->
                 /\ f.at = "WRITE_sDATA"
                 /\ f.tx = [j \in 1..c.size |-> WrData((c.addr - req.args.addr) + j - 1)]
  /\ CompletedOk => Len(frames) = 3 * Len(chunks)

\* C6 as stated: for any (addr, len, page_sz) the write emits, chunk by chunk,
\* a WREN frame, a page-program frame with the chunk's address and the payload
\* of the chunk, the chunks being [addr, addr+len) cut at the multiples of
\* page_sz; when the write has completed every chunk has been emitted.
C6_PageSplitting ==
  req.name = "write"
    => FramesFollow(TxrxAt(OpsWrite), PageSplit(req.args.addr, req.args.len, cfg.page_sz))

\* C6 amended: the same for a page size that is a power of two and len >= 1;
\* a write of len = 0 emits one WREN frame, one page-program frame and one
\* empty payload.
C6_PageSplittingPow2 ==
  (req.name = "write" /\ IsPow2(cfg.page_sz))
    => FramesFollow(TxrxAt(OpsWrite),
                    IF req.args.len = 0
                      THEN <<[addr |-> req.args.addr, size |-> 0]>>
                      ELSE PageSplit(req.args.addr, req.args.len, cfg.page_sz))

\* C6 witness: a write that starts inside a page and crosses two page
\* boundaries has completed.
C6_Witness ==
  /\ req.name = "write" /\ CompletedOk /\ IsPow2(cfg.page_sz)
  /\ req.args.addr % cfg.page_sz # 0
  /\ Len(TxrxAt({"WRITE_sDATA"})) >= 3

---------------------------------------------------------------------------
(* Erases: the planner *)

EraseAddrs == {0, 1, 256, 4096, 8192, 12288, 32768, 61440}
EraseLens == {0, 4096, 6144, 8192, 16384, 24576, 36864, 69632}

InitErase ==
  InitWith({CfgBig}, {SPIFLASH_CMD_TBL_STANDARD, TblNoFast, TblOnly4K}, Modes,
           Environment({SPIFLASH_OK}, {SPIFLASH_OK}, {0}, 0, MaxReq))

NextErase ==
  \/ \E addr \in EraseAddrs, len \in EraseLens : SPIFLASH_erase(addr, len)
  \/ \E e \in env.codes : AsyncTrigger(e)
  \/ SyncLoop

SpecErase == InitErase /\ [][NextErase]_vars

\* the block erase opcode of the command table for a block size, 0 if none
EraseOpcode(size) ==
  CASE size = 4096 -> cmd_tbl.block_erase_4
    [] size = 8192 -> cmd_tbl.block_erase_8
    [] size = 16384 -> cmd_tbl.block_erase_16
    [] size = 32768 -> cmd_tbl.block_erase_32
    [] size = 65536 -> cmd_tbl.block_erase_64
    [] OTHER -> 0

SupportedEraseSizes == {s \in {4096, 8192, 16384, 32768, 65536} : EraseOpcode(s) # 0}

SmallestEraseBlock == CHOOSE s \in SupportedEraseSizes : \A u \in SupportedEraseSizes : s <= u

\* the supported sizes S with S | addr and S <= len
Qualifying(addr, len) == {s \in SupportedEraseSizes : addr % s = 0 /\ s <= len}

\* the erase steps that take, each time, the largest qualifying size
RECURSIVE ErasePlan(_, _)
ErasePlan(addr, len) ==
  IF Qualifying(addr, len) = {} THEN <<>>
  ELSE LET S == CHOOSE s \in Qualifying(addr, len) : \A u \in Qualifying(addr, len) : u <= s
       IN <<[addr |-> addr, size |-> S]>> \o ErasePlan(addr + S, len - S)

\* C7: every erase step of an accepted erase uses the largest supported size S
\* with S | addr and S <= len, with the opcode of that size and the address of
\* the step; when the erase has completed the sizes sum to len.
C7_ErasePlannerOptimal ==
  req.name = "erase"
    => LET frames == TxrxAt({"ERASE_BLOCK_sERAS"})
           plan == ErasePlan(req.args.addr, req.args.len)
       IN /\ Len(frames) <= Len(plan)
          /\ \A i \in 1..Len(frames) :
               /\ frames[i].tx[1] = EraseOpcode(plan[i].size)
               /\ DecodeAddress(frames[i].tx) = plan[i].addr
          /\ CompletedOk =>
               /\ Len(frames) = Len(plan)
               /\ SumSeq([i \in 1..Len(plan) |-> plan[i].size], Len(plan)) = req.args.len

\* C8: an erase request (made with op Idle) whose len is not divisible by the
\* smallest supported erase block returns ErasureUnaligned, makes no HAL call
\* and leaves op Idle, whatever addr is.
C8_UnalignedLenRejected ==
  [][(/\ ev'.kind \in {"req", "call"} /\ ev'.name = "erase"
      /\ ev'.args.len % SmallestEraseBlock # 0)
       => /\ ev'.ret = SPIFLASH_ERR_ERASE_UNALIGNED
          /\ spi.op = SPIFLASH_OP_IDLE
          /\ UNCHANGED <<spi, trace, cs_pin, pending, req, pc>>]_vars

\* C8 witness: an erase with an aligned address and a len that is more than
\* one block but no multiple of the smallest block was refused.
C8_Witness ==
  /\ ev.kind = "req" /\ ev.name = "erase" /\ ev.ret = SPIFLASH_ERR_ERASE_UNALIGNED
  /\ ev.args.addr % SmallestEraseBlock = 0
  /\ ev.args.len > SmallestEraseBlock /\ ev.args.len % SmallestEraseBlock # 0
  /\ spi.op = SPIFLASH_OP_IDLE /\ trace = <<>>

\* C9: an erase request whose start address is no multiple of the smallest
\* supported erase block returns ErasureUnaligned, and no erase command is
\* sent for such an address.
C9_UnalignedAddrRejected ==
  /\ (/\ ev.kind \in {"req", "call"} /\ ev.name = "erase"
      /\ ev.args.addr % SmallestEraseBlock # 0)
       => ev.ret = SPIFLASH_ERR_ERASE_UNALIGNED
  /\ \A i \in 1..Len(TxrxAt({"ERASE_BLOCK_sERAS"})) :
       DecodeAddress(TxrxAt({"ERASE_BLOCK_sERAS"})[i].tx) % SmallestEraseBlock = 0

---------------------------------------------------------------------------
(* The busy wait after a wait-bearing step *)

MaxBusyWait == 3     \* busy status answers per operation
MaxBusyReq == 2      \* requests per run

InitBusy ==
  InitWith({CfgBig}, {SPIFLASH_CMD_TBL_STANDARD}, Modes,
           Environment(TxrxResults, TriggerCodes, StatusBytes, MaxBusyWait, MaxBusyReq))

NextBusy ==
  \/ SPIFLASH_write(3, 2)
  \/ SPIFLASH_erase(0, 4096)
  \/ SPIFLASH_chip_erase
  \/ SPIFLASH_write_sr(2)
  \/ SPIFLASH_write_reg(49, 2, 1, 5)
  \/ \E e \in env.codes : AsyncTrigger(e)
  \/ SyncLoop

SpecBusy == InitBusy /\ [][NextBusy]_vars

\* the steps after which the engine enters the busy wait
WaitBearing ==
  {"WRITE_sDATA", "ERASE_BLOCK_sERAS", "WRITE_SR_sDATA", "ERASE_CHIP_sERAS",
   "WRITE_REG_sDATAWAIT"}

BcwSteps == {"bcw_wait", "bcw_read_sr", "bcw_check"}

BusyBitSet(v) == (v \div cmd_tbl.sr_busy_bit) % 2 = 1

\* the nominal time of the wait-bearing transaction c (spec: the configured
\* timing of the step, the caller's wait_ms for write_reg)
NominalTime(c) ==
  CASE c.at = "WRITE_sDATA" -> cfg.page_program_ms
    [] c.at = "WRITE_SR_sDATA" -> cfg.sr_write_ms
    [] c.at = "ERASE_CHIP_sERAS" -> cfg.chip_erase_ms
    [] c.at = "WRITE_REG_sDATAWAIT" -> req.args.wait_ms
    [] c.at = "ERASE_BLOCK_sERAS" ->
         (CASE c.tx[1] = cmd_tbl.block_erase_4 -> cfg.block_erase_4_ms
            [] c.tx[1] = cmd_tbl.block_erase_8 -> cfg.block_erase_8_ms
            [] c.tx[1] = cmd_tbl.block_erase_16 -> cfg.block_erase_16_ms
            [] c.tx[1] = cmd_tbl.block_erase_32 -> cfg.block_erase_32_ms
            [] OTHER -> cfg.block_erase_64_ms)
    [] OTHER -> 0

\* the wait-bearing transactions of the log that started, with a time > 0
WaitBearingAt ==
  {i \in 1..Len(trace) :
     /\ trace[i].k = "txrx" /\ trace[i].at \in WaitBearing
     /\ trace[i].a = SPIFLASH_OK /\ NominalTime(trace[i]) > 0}

\* the first HAL call after i that the busy wait did not make
BusyWaitEnd(i) ==
  LET later == {j \in (i + 1)..Len(trace) : trace[j].at \notin BcwSteps}
  IN IF later = {} THEN Len(trace) + 1
     ELSE CHOOSE j \in later : \A m \in later : j <= m

\* the wait and spi_txrx calls of the busy wait that follows transaction i
Polls(i) == SelectSeq(SubSeq(trace, i + 1, BusyWaitEnd(i) - 1), LAMBDA c : c.k # "cs")

Backoff(i) ==
  LET P == Polls(i)
      T == NominalTime(trace[i])
  IN /\ \A j \in 1..Len(P) :
          IF j % 2 = 1
            THEN /\ P[j].k = "wait"
                 /\ P[j].a = (IF j = 1 THEN T
                              ELSE IF P[j - 2].a \div 2 >= 1 THEN P[j - 2].a \div 2 ELSE 1)
                 /\ j >= 3 => (P[j - 1].a = SPIFLASH_OK /\ BusyBitSet(P[j - 1].rxv))
            ELSE /\ P[j].k = "txrx" /\ P[j].tx = <<cmd_tbl.read_sr>> /\ P[j].rxlen = 1
     /\ BusyWaitEnd(i) <= Len(trace)
          => /\ Len(P) >= 2 /\ Len(P) % 2 = 0
             /\ P[Len(P)].a = SPIFLASH_OK /\ ~BusyBitSet(P[Len(P)].rxv)

\* C10: after a wait-bearing step with nominal time T > 0 the engine waits T,
\* reads the status register once after each wait, waits max(1, previous/2)
\* after each busy answer, and the main machine goes on only after an answer
\* with the busy bit clear (so k busy answers give k+1 waits).
C10_BusyWaitBackoff == \A i \in WaitBearingAt : Backoff(i)

---------------------------------------------------------------------------
(* The asynchronous path against the blocking call (checked under Spec) *)

\* what the HAL was asked to do: the calls with their arguments, without what
\* they returned
WireOf(calls) ==
  [i \in 1..Len(calls) |->
     [k |-> calls[i].k,
      arg |-> IF calls[i].k = "txrx" THEN 0 ELSE calls[i].a,
      tx |-> calls[i].tx,
      rxlen |-> calls[i].rxlen]]

\* the asynchronous operation has its final result: the request returned an
\* error, or the callback was invoked after the completion of a spi_txrx or
\* after a wait that ended without error (a wait of the blocking HAL returns
\* nothing, so it cannot fail)
AsyncDone ==
  /\ spi.async # 0 /\ req.name # "none"
  /\ \/ ev.kind = "req" /\ ev.name = req.name /\ req.ret # SPIFLASH_OK /\ pending = "failed"
     \/ /\ ev.kind = "trig" /\ ev.cb /\ req.ret = SPIFLASH_OK
        /\ ~(ev.err_in # SPIFLASH_OK /\ trace[Len(trace)].k = "wait")

AsyncResult == IF ev.kind = "req" THEN ev.ret ELSE ev.cb_err

\* the HAL of the asynchronous run: for each spi_txrx the result it returned,
\* or the completion result the host handed to async_trigger for it, and the
\* status byte the chip answered
HalOfRun ==
  LET tx == SelectSeq(trace, LAMBDA c : c.k = "txrx")
  IN [k \in 1..Len(tx) |->
        [r |-> IF k = Len(tx) /\ tx[k].a = SPIFLASH_OK /\ ev.kind = "trig"
                 THEN ev.err_in ELSE tx[k].a,
         sr |-> IF tx[k].rxv = -1 THEN 0 ELSE tx[k].rxv]]

\* the blocking call of the same request on the same driver state and HAL
BlockingTwin == spiflash_exe_blocking([req.start EXCEPT !.async = 0], HalOfRun)

SameAsBlocking(b) == WireOf(b.calls) = WireOf(trace) /\ b.res = AsyncResult

\* C11: for every public request and every deterministic HAL, the cs,
\* spi_txrx and wait calls (with their arguments) of the asynchronous path,
\* driven by async_trigger with each completion result, are those of the
\* synchronous call, and the final result code is the same.
C11_AsyncEqualsSync == AsyncDone => SameAsBlocking(BlockingTwin)

\* C11 witness: an asynchronous write that had to wait for a busy chip has
\* completed with OK.
C11_Witness ==
  /\ AsyncDone /\ req.name = "write" /\ ev.kind = "trig" /\ ev.cb_err = SPIFLASH_OK
  /\ nbusy >= 1 /\ Len(TxrxAt({"bcw_read_sr"})) >= 2

---------------------------------------------------------------------------
(* Address framing *)

AddrSizes == {2, 3, 4}
WideAddr == ((1 * 256 + 2) * 256 + 3) * 256 + 4     \* 0x01020304
WideBlockAddr == (1 * 256 + 2) * 65536              \* 0x01020000, on a 64K block
FrameAddrs == {WideAddr, WideBlockAddr, 772}

InitAddr ==
  InitWith({[c EXCEPT !.addr_sz = n] : c \in {CfgBig, CfgLittleZero}, n \in AddrSizes},
           {SPIFLASH_CMD_TBL_STANDARD}, Modes,
           Environment(TxrxResults, TriggerCodes, {0}, 0, MaxReq))

NextAddr ==
  \/ \E addr \in FrameAddrs : SPIFLASH_write(addr, 2)
  \/ \E addr \in FrameAddrs : SPIFLASH_read(addr, 2)
  \/ \E addr \in FrameAddrs : SPIFLASH_fast_read(addr, 2)
  \/ \E addr \in FrameAddrs : SPIFLASH_erase(addr, 4096)
  \/ \E e \in env.codes : AsyncTrigger(e)
  \/ SyncLoop

SpecAddr == InitAddr /\ [][NextAddr]_vars

\* the steps that transmit an opcode followed by an address
AddressBearing == {"WRITE_sADDR", "READ", "FAST_READ", "ERASE_BLOCK_sERAS"}

\* the addr_sz bytes that follow the opcode of a frame
AddressBytes(tx) == [i \in 1..cfg.addr_sz |-> tx[1 + i]]

\* the first address-bearing frame of a request carries the address of the
\* request (later frames of a write or an erase carry the advanced cursor)
FirstAddressFrame == TxrxAt(AddressBearing)[1]

\* every address-bearing frame is the opcode, addr_sz address bytes and the
\* dummy bytes (one more for a fast read)
AddressFramesSized ==
  \A i \in 1..Len(TxrxAt(AddressBearing)) :
    LET f == TxrxAt(AddressBearing)[i]
    IN Len(f.tx) = 1 + cfg.addr_sz + cfg.addr_dummy_sz
                     + (IF f.at = "FAST_READ" THEN 1 ELSE 0)

\* C12 as stated: every address-bearing frame carries exactly addr_sz address
\* bytes after the opcode, and for addr = 0x01020304 with addr_sz = 3 they
\* are 01 02 03 in a big-endian and 04 03 02 in a little-endian configuration.
C12_AddressEndianness ==
  /\ AddressFramesSized
  /\ (TxrxAt(AddressBearing) # <<>> /\ req.args.addr = WideAddr /\ cfg.addr_sz = 3)
       => AddressBytes(FirstAddressFrame.tx)
            = (IF cfg.addr_endian # 0 THEN <<1, 2, 3>> ELSE <<4, 3, 2>>)

\* C12 amended: every address-bearing frame carries exactly addr_sz address
\* bytes after the opcode; they are the addr_sz low bytes of the address, most
\* significant first in a big-endian and least significant first in a
\* little-endian configuration (read in that byte order they give addr modulo
\* 256^addr_sz), so addr = 0x01020304 with addr_sz = 3 gives 02 03 04
\* big-endian and 04 03 02 little-endian.
C12_AddressLowBytes ==
  /\ AddressFramesSized
  /\ TxrxAt(AddressBearing) # <<>>
       => /\ DecodeAddress(FirstAddressFrame.tx)
               = (IF cfg.addr_sz >= 4 THEN req.args.addr
                  ELSE req.args.addr % Pow2(8 * cfg.addr_sz))
          /\ (req.args.addr = WideAddr /\ cfg.addr_sz = 3)
               => AddressBytes(FirstAddressFrame.tx)
                    = (IF cfg.addr_endian # 0 THEN <<2, 3, 4>> ELSE <<4, 3, 2>>)

\* C12 witness: a read of 0x01020304 on a big-endian chip with three address
\* bytes has sent its frame.
C12_Witness ==
  /\ req.name = "read" /\ req.args.addr = WideAddr
  /\ cfg.addr_sz = 3 /\ cfg.addr_endian # 0
  /\ Len(TxrxAt({"READ"})) = 1

---------------------------------------------------------------------------
(* The busy pre-check (checked under Spec) *)

\* the current request has its final result, in either mode
OpDone ==
  \/ AsyncDone
  \/ /\ spi.async = 0 /\ req.name # "none" /\ req.returned /\ pc = "none"
     /\ ev.kind \in {"req", "ret"} /\ ev.name = req.name

OpResult == IF spi.async = 0 THEN req.ret ELSE AsyncResult

\* the engine has gone past the pre-check: it made a call that is not the
\* pre-check's, or the operation has its result
PastPreCheck == OpDone \/ \E i \in 1..Len(trace) : trace[i].at # "precheck"

\* the status byte that the pre-check read (its spi_txrx succeeded and, in
\* asynchronous mode, completed without error), -1 if there is none
PreCheckStatus ==
  IF /\ Len(trace) >= 2 /\ trace[2].at = "precheck" /\ trace[2].a = SPIFLASH_OK
     /\ PastPreCheck
     /\ ~(Len(trace) = 2 /\ ev.kind = "trig" /\ ev.err_in # SPIFLASH_OK)
    THEN trace[2].rxv ELSE -1

\* the same request on the same driver without the hint, under the HAL that
\* follows the pre-check
TwinWithoutPreCheck ==
  spiflash_exe_blocking([req.start EXCEPT !.could_be_busy = 0, !.async = 0],
                        Tail(HalOfRun))

SameAfterPreCheck(b) ==
  /\ WireOf(b.calls) = WireOf(SubSeq(trace, 3, Len(trace)))
  /\ b.res = OpResult

\* C13: when could_be_busy is set on entry of a request, the engine makes
\* exactly one read_sr transaction before the first main-machine step; if the
\* status byte is busy the request fails with HwBusy, no frame of the
\* operation is transmitted and op is Idle afterwards; if it is not busy the
\* operation proceeds and completes as it does without the pre-check.
C13_BusyPreCheck ==
  (req.name # "none" /\ req.cbb # 0)
    => /\ Len(trace) >= 2
       /\ trace[1].k = "cs" /\ trace[1].a = 1
       /\ trace[2].k = "txrx" /\ trace[2].at = "precheck"
       /\ trace[2].tx = <<cmd_tbl.read_sr>> /\ trace[2].rxlen = 1
       /\ Len(TxrxAt({"precheck"})) = 1
       /\ (PreCheckStatus # -1 /\ BusyBitSet(PreCheckStatus))
            => /\ Len(SelectSeq(trace, LAMBDA c : c.k = "txrx")) = 1
               /\ OpDone => (OpResult = SPIFLASH_ERR_HW_BUSY /\ spi.op = SPIFLASH_OP_IDLE)
       /\ (PreCheckStatus # -1 /\ ~BusyBitSet(PreCheckStatus) /\ OpDone)
            => SameAfterPreCheck(TwinWithoutPreCheck)

---------------------------------------------------------------------------
(* The operand bytes of the register requests (checked under Spec) *)

\* C14: the operand bytes a request supplies are the bytes put on the wire:
\* write_sr(sr) transmits [write_sr opcode, sr], read_reg(reg) transmits
\* [reg], write_reg(reg, data) transmits [reg, data], in every configuration,
\* also when a busy pre-check or a WREN step runs before the data frame.
C14_OperandsOnTheWire ==
  /\ req.name = "write_sr"
       => \A i \in 1..Len(TxrxAt({"WRITE_SR_sDATA"})) :
            TxrxAt({"WRITE_SR_sDATA"})[i].tx = <<cmd_tbl.write_sr, req.args.b0>>
  /\ req.name = "read_reg"
       => \A i \in 1..Len(TxrxAt({"READ_REG"})) :
            TxrxAt({"READ_REG"})[i].tx = <<req.args.b0>>
  /\ req.name = "write_reg"
       => \A i \in 1..Len(TxrxAt({"WRITE_REG_DATA", "WRITE_REG_sDATAWAIT"})) :
            TxrxAt({"WRITE_REG_DATA", "WRITE_REG_sDATAWAIT"})[i].tx
              = <<req.args.b0, req.args.b1>>

---------------------------------------------------------------------------
(* Cancelling from the host (checked under Spec) *)

\* C15: in asynchronous mode, at every suspension point of every operation, a
\* call of async_trigger with a non-zero error code e makes no further HAL
\* call, sets op to Idle, clears the wait state, returns e and reports e
\* through the callback.
C15_ForceCancel ==
  [][(ev'.kind = "trig" /\ ev'.err_in # SPIFLASH_OK)
       => /\ trace' = trace /\ cs_pin' = cs_pin /\ pending' = "none"
          /\ spi'.op = SPIFLASH_OP_IDLE
          /\ spi'.wait_period_ms = 0
          /\ spi'.busy_pre_check = 0
          /\ spi'.busy_check_wait = BCW_IDLE
          /\ ev'.ret = ev'.err_in
          /\ ev'.cb /\ ev'.cb_err = ev'.err_in
          /\ req'.cbs = Append(req.cbs, [op |-> spi.op, err |-> ev'.err_in])]_vars

\* C15 witness: the host cancelled an operation that was suspended in a wait
\* of its busy wait, after the chip had answered busy.
C15_Witness ==
  /\ ev.kind = "trig" /\ ev.err_in # SPIFLASH_OK /\ ev.cb
  /\ trace # <<>> /\ trace[Len(trace)].k = "wait" /\ trace[Len(trace)].at = "bcw_check"
  /\ spi.op = SPIFLASH_OP_IDLE

---------------------------------------------------------------------------
(* A host that also calls async_trigger while the driver is Idle *)

MaxHostCalls == 2     \* requests and stray async_trigger calls per run

InitMisuse ==
  InitWith({CfgBig}, {SPIFLASH_CMD_TBL_STANDARD}, {m \in Modes : m # 0},
           Environment(TxrxResults, TriggerCodes, {0, 1}, MaxBusy, MaxHostCalls))

NextMisuse ==
  \/ SPIFLASH_write(3, 2)
  \/ SPIFLASH_erase(0, 4096)
  \/ SPIFLASH_read_sr
  \/ \E v \in {0, 1} : SetCouldBeBusy(v)
  \/ \E e \in env.codes : TriggerWhileIdle(e)
  \/ \E e \in env.codes : AsyncTrigger(e)

SpecMisuse == InitMisuse /\ [][NextMisuse]_vars

\* C16: a call of async_trigger with err_code OK on a driver whose op is Idle
\* returns BadState and leaves op Idle.
C16_IdleTriggerIsBadState ==
  (ev.kind = "idle_trig" /\ ev.err_in = SPIFLASH_OK)
    => (ev.ret = SPIFLASH_ERR_BAD_STATE /\ spi.op = SPIFLASH_OP_IDLE)

---------------------------------------------------------------------------
(* A host that issues its next request from inside the async callback *)

MaxChain == 2     \* requests per run, the first from the idle host

InitReentrant ==
  InitWith({CfgBig}, {SPIFLASH_CMD_TBL_STANDARD}, {m \in Modes : m # 0},
           Environment(TxrxResults, TriggerCodes, {0, 1}, MaxBusy, MaxChain))

\* the requests the callback issues
CallbackRequests ==
  {[name |-> "write", args |-> [NoArgs EXCEPT !.addr = 3, !.len = 2]],
   [name |-> "read_sr", args |-> NoArgs],
   [name |-> "write_sr", args |-> [NoArgs EXCEPT !.b0 = 2]]}

NextReentrant ==
  \/ nreq = 0 /\ SPIFLASH_write(3, 2)
  \/ nreq = 0 /\ SPIFLASH_erase(0, 4096)
  \/ nreq = 0 /\ SPIFLASH_read_sr
  \/ \E v \in {0, 1} : SetCouldBeBusy(v)
  \/ \E e \in env.codes : AsyncTrigger(e)
  \/ \E e \in env.codes, q \in CallbackRequests : AsyncTriggerReentrant(e, q.name, q.args)

\* the host calls async_trigger for every completion the HAL posts
SpecReentrant ==
  /\ InitReentrant /\ [][NextReentrant]_vars
  /\ WF_vars(\E e \in TriggerCodes : AsyncTrigger(e))

\* a request made in the callback is accepted, and when the trigger that
\* invoked the callback has returned, the operation state is the one the
\* request seeded and started
AcceptedInCallback ==
  ev.kind = "cb_req"
    => /\ ev.ret # SPIFLASH_ERR_BUSY
       /\ req.name = ev.name
       /\ spi.op \in OpsOf(ev.name)
       /\ spi.op = req.start.op
       /\ spi.addr = req.start.addr /\ spi.len = req.start.len /\ spi.ptr = req.start.ptr
       /\ pending \in {"txrx", "failed"}

\* an operation that is under way has a completion outstanding, which the
\* host answers with async_trigger
UnderWay == (req.name # "none" /\ spi.op # SPIFLASH_OP_IDLE) => pending # "none"

\* the n-th request of the run has been accepted and has not completed
Started(n) ==
  nreq = n /\ req.name # "none" /\ req.ret = SPIFLASH_OK /\ req.cbs = <<>>

\* the callback of the n-th request of the run has been invoked
CalledBack(n) == (nreq = n /\ Len(req.cbs) = 1) \/ nreq > n

\* C17: a request issued from inside the async callback (after success or an
\* error) is accepted, not refused with BusyDriver; when the enclosing
\* async_trigger returns, op and the seeded state are those of the new
\* request; and the new operation runs to its own completion and callback.
C17_ReentrantFromCallback ==
  /\ [](AcceptedInCallback /\ UnderWay)
  /\ \A n \in 2..MaxChain : Started(n) ~> CalledBack(n)

\* C17 witness: the request made in the callback of a failed operation has
\* completed with OK and its own callback was invoked.
C17_Witness ==
  /\ nreq = 2 /\ req.name = "write" /\ req.cbs = <<[op |-> SPIFLASH_OP_IDLE, err |-> SPIFLASH_OK]>>
  /\ req.start.busy_check_wait # BCW_IDLE

---------------------------------------------------------------------------
(* The write-enable prologue (checked under SpecBusy) *)

\* the steps that send a command the chip accepts only with the write-enable
\* latch set, and the write-enable step of each
NeedsWren ==
  {"WRITE_sADDR", "ERASE_BLOCK_sERAS", "ERASE_CHIP_sERAS", "WRITE_SR_sDATA",
   "WRITE_REG_sDATAWAIT"}

WrenStepOf(at) ==
  CASE at = "WRITE_sADDR" -> "WRITE_sWREN"
    [] at = "ERASE_BLOCK_sERAS" -> "ERASE_BLOCK_sWREN"
    [] at = "ERASE_CHIP_sERAS" -> "ERASE_CHIP_sWREN"
    [] at = "WRITE_SR_sDATA" -> "WRITE_SR_sWREN"
    [] OTHER -> "WRITE_REG_sWREN"

WrenSteps == {WrenStepOf(at) : at \in NeedsWren}

\* the spi_txrx calls of the current request, in order
Transactions == SelectSeq(trace, LAMBDA c : c.k = "txrx")

\* T[i] is a command that needs the latch: T[i-1] is its write enable
WrenBefore(T, i) ==
  /\ i > 1
  /\ T[i - 1].at = WrenStepOf(T[i].at)
  /\ T[i - 1].tx = <<cmd_tbl.write_enable>> /\ T[i - 1].rxlen = 0
  /\ T[i - 1].a = SPIFLASH_OK

\* T[i] is the write enable of a later chunk: the busy wait of the chunk
\* before has ended, that is, the transaction before is a status read that
\* found the chip ready, or the chunk's own frame when its nominal time is 0
AfterBusyWait(T, i) ==
  \/ /\ T[i - 1].at = "bcw_read_sr" /\ T[i - 1].a = SPIFLASH_OK
     /\ ~BusyBitSet(T[i - 1].rxv)
  \/ T[i - 1].at \in WaitBearing /\ NominalTime(T[i - 1]) = 0

\* C18: each page-program, block-erase, chip-erase, write-SR and
\* write-register (write_en) frame is immediately preceded by its own 1-byte
\* write_enable transaction with no other spi_txrx between the two; an
\* operation of n chunks sends n write enables, one before each chunk, each
\* after the busy wait of the chunk before has ended.
C18_WrenPrologue ==
  LET T == Transactions
      wrens == {i \in 1..Len(T) : T[i].at \in WrenSteps}
      cmds == {i \in 1..Len(T) : T[i].at \in NeedsWren}
  IN /\ \A i \in cmds : WrenBefore(T, i)
     /\ Cardinality(wrens) \in {Cardinality(cmds), Cardinality(cmds) + 1}
     /\ CompletedOk => Cardinality(wrens) = Cardinality(cmds)
     /\ \A i \in wrens : (\E j \in wrens : j < i) => AfterBusyWait(T, i)

---------------------------------------------------------------------------
(* Reads *)

ReadAddrs == {0, 8197}
ReadLens == {0, 2}

InitRead ==
  InitWith({CfgBig, CfgLittleZero}, {SPIFLASH_CMD_TBL_STANDARD, TblNoFast}, Modes,
           Environment(TxrxResults, TriggerCodes, {0, 1}, MaxBusy, MaxReq))

NextRead ==
  \/ \E addr \in ReadAddrs, len \in ReadLens : SPIFLASH_read(addr, len)
  \/ \E addr \in ReadAddrs, len \in ReadLens : SPIFLASH_fast_read(addr, len)
  \/ \E v \in {0, 1} : SetCouldBeBusy(v)
  \/ \E e \in env.codes : AsyncTrigger(e)
  \/ SyncLoop

SpecRead == InitRead /\ [][NextRead]_vars

\* SPIFLASH_read with the arguments of the current request, on the driver and
\* under the HAL of the current request
ReadTwin ==
  spiflash_exe_blocking([SeededBy(req.start, "read", req.args) EXCEPT !.async = 0],
                        HalOfRun)

SameAsRead(b) == WireOf(b.calls) = WireOf(trace) /\ b.res = OpResult

\* C19: when cmd_tbl.read_data_fast is 0, fast_read(addr, len, buf) makes
\* exactly the cs, spi_txrx (opcode, frame bytes, tx and rx lengths) and wait
\* calls of read(addr, len, buf), with the same result.
C19_FastReadFallback ==
  (req.name = "fast_read" /\ cmd_tbl.read_data_fast = 0 /\ OpDone)
    => SameAsRead(ReadTwin)

\* C19 witness: a fast read of two bytes on a chip without the fast read
\* opcode has completed with OK after a busy pre-check.
C19_Witness ==
  /\ req.name = "fast_read" /\ cmd_tbl.read_data_fast = 0 /\ OpDone
  /\ OpResult = SPIFLASH_OK /\ req.args.len = 2 /\ req.cbb # 0
  /\ Len(Transactions) = 2 /\ Transactions[2].tx[1] = cmd_tbl.read_data

---------------------------------------------------------------------------
(* The chip-select frame of a page program (checked under SpecBusy) *)

\* the page-program address transactions of the log
PageProgramAt == {i \in 1..Len(trace) : trace[i].k = "txrx" /\ trace[i].at = "WRITE_sADDR"}

\* the call at i is hal->_spiflash_spi_cs(spi, level)
IsCs(i, level) == trace[i].k = "cs" /\ trace[i].a = level

\* C20: within each write chunk CS is asserted before the page-program
\* address frame, there is no cs call between the WRITE_sADDR transaction and
\* the WRITE_sDATA payload transaction, and CS is deasserted after the
\* payload and before the first wait of the busy wait.
C20_PageProgramFrame ==
  \A i \in PageProgramAt :
    /\ i > 1 /\ IsCs(i - 1, 1)
    /\ i + 1 <= Len(trace)
         => /\ trace[i + 1].k = "txrx" /\ trace[i + 1].at = "WRITE_sDATA"
            /\ trace[i].a = SPIFLASH_OK
    /\ i + 2 <= Len(trace) => IsCs(i + 2, 0)
    /\ i + 3 <= Len(trace)
         => /\ trace[i + 3].k = "wait"
            /\ \A j \in 1..(i + 2) : trace[j].k = "wait" => j < i

\* C20 witness: a write of two chunks has completed, each chunk with its
\* busy wait, on a driver that a failed operation had left.
C20_Witness ==
  /\ req.name = "write" /\ CompletedOk /\ nreq = 2
  /\ req.start.busy_check_wait # BCW_IDLE
  /\ Cardinality(PageProgramAt) = 2
  /\ \A i \in PageProgramAt : i + 3 <= Len(trace) /\ trace[i + 3].k = "wait"
  /\ nbusy >= 1

---------------------------------------------------------------------------
(* Chip select framing *)

\* the transactions that begin with a command opcode: all but the payload of
\* a page program, which continues the frame of its address transaction
CommandAt ==
  {i \in 1..Len(trace) : trace[i].k = "txrx" /\ trace[i].at # "WRITE_sDATA"}

\* the cs calls made before the call at i
CsBefore(i) == {j \in 1..(i - 1) : trace[j].k = "cs"}

\* the call at i asserts CS, and the cs call made before it, if the operation
\* made one, was a deassert
OpensFrame(i) ==
  /\ IsCs(i, 1)
  /\ \A j \in CsBefore(i) : (\A m \in CsBefore(i) : m <= j) => IsCs(j, 0)

\* C21: every spi_txrx that begins with a command opcode is the first
\* transaction after CS went from deasserted to asserted; in particular CS is
\* deasserted between the pre-check read_sr and the first transaction of the
\* operation, and between the read_sr of the busy wait and the next step.
C21_OneCommandPerFrame == \A i \in CommandAt : i > 1 /\ OpensFrame(i - 1)

\* C22: whenever an operation has ended and op is Idle, after success, after
\* a transport error, HwBusy or BadConfig, the last cs call was a deassert.
C22_IdleMeansDeasserted ==
  (req.name # "none" /\ spi.op = SPIFLASH_OP_IDLE /\ pc = "none") => cs_pin = 0

---------------------------------------------------------------------------
(* One HAL request per engine entry *)

\* the step entered the engine: an accepted public request (the first begin)
\* or one SPIFLASH_async_trigger; as a predicate of the state after the step
EngineEntered ==
  \/ ev.kind \in {"req", "call"} /\ ev.name \notin {"refused", "init"}
       /\ ev.ret # SPIFLASH_ERR_ERASE_UNALIGNED
  \/ ev.kind \in {"step", "ret", "trig"}

\* the spi_txrx and wait calls among calls
HalRequests(calls) ==
  Cardinality({i \in 1..Len(calls) : calls[i].k \in {"txrx", "wait"}})

\* the number of spi_txrx and wait calls of the entry that this step is: a
\* request starts a new log, a trigger appends to the log
EntryRequests ==
  HalRequests(IF ev'.kind \in {"req", "call"} THEN trace'
              ELSE SubSeq(trace', Len(trace) + 1, Len(trace')))

OneHalRequest ==
  /\ EntryRequests <= 1
  /\ (ev'.ret = SPIFLASH_OK /\ spi'.op # SPIFLASH_OP_IDLE) => EntryRequests = 1

\* C23: every entry into the engine (a public request or one async_trigger)
\* issues at most one spi_txrx or wait call, and exactly one whenever it
\* returns OK with op still not Idle; hence in asynchronous mode an operation
\* under way that last returned OK has exactly one completion pending.
C23_OneOutstandingRequest ==
  /\ [][EngineEntered' => OneHalRequest]_vars
  /\ []((spi.async # 0 /\ EngineEntered /\ ev.ret = SPIFLASH_OK
           /\ spi.op # SPIFLASH_OP_IDLE)
          => pending \in {"txrx", "wait"})

\* C23 witness: an asynchronous write is in its busy wait after a busy status
\* answer: the entry that found the chip busy returned OK with the one wait
\* call outstanding.
C23_Witness ==
  /\ spi.async # 0 /\ req.name = "write" /\ ev.kind = "trig" /\ ev.ret = SPIFLASH_OK
  /\ spi.op = "WRITE_sDATA" /\ spi.busy_check_wait = BCW_READ_SR
  /\ nbusy = 1 /\ pending = "wait"
  /\ trace[Len(trace)].k = "wait" /\ trace[Len(trace)].at = "bcw_check"

---------------------------------------------------------------------------
(* Termination under a HAL that works and a chip that gets ready *)

MaxLiveReq == 1      \* accepted requests per run
MaxLiveBusy == 2     \* busy status answers per operation

\* every spi_txrx completes with OK and the host hands OK to async_trigger;
\* the chip answers busy at most MaxLiveBusy times during an operation
InitLive ==
  InitWith({CfgBig, CfgLittleZero}, {SPIFLASH_CMD_TBL_STANDARD}, Modes,
           Environment({SPIFLASH_OK}, {SPIFLASH_OK}, {0, 1}, MaxLiveBusy, MaxLiveReq))

NextLive ==
  \/ \E len \in {0, 2, 5} : SPIFLASH_write(3, len)
  \/ SPIFLASH_read(8192, 2)
  \/ SPIFLASH_fast_read(8192, 2)
  \/ \E addr \in {0, 1}, len \in {4096, 40960} : SPIFLASH_erase(addr, len)
  \/ SPIFLASH_chip_erase
  \/ SPIFLASH_read_sr
  \/ SPIFLASH_read_sr_busy
  \/ SPIFLASH_write_sr(2)
  \/ SPIFLASH_read_jedec_id
  \/ SPIFLASH_read_product_id
  \/ SPIFLASH_read_reg(53)
  \/ \E we \in {0, 1} : SPIFLASH_write_reg(49, 2, we, 4)
  \/ \E v \in {0, 1} : SetCouldBeBusy(v)
  \/ \E e \in env.codes : AsyncTrigger(e)
  \/ SyncLoop

\* the while loop of the blocking call keeps running: weak fairness of
\* SyncLoop, written with its enabling condition pc = "loop"
LoopRuns == []<>(pc # "loop") \/ []<><<SyncLoop>>_vars

\* the host calls async_trigger for every completion (spiflash.h:434-446),
\* and the while loop of the blocking call keeps running (spiflash.c:531-533)
SpecLive ==
  /\ InitLive /\ [][NextLive]_vars
  /\ WF_vars(\E e \in TriggerCodes : AsyncTrigger(e))
  /\ LoopRuns

\* the current request has its result: the blocking call has returned, the
\* asynchronous request has returned an error or its callback has been called
HasResult ==
  /\ req.name # "none"
  /\ IF spi.async = 0 THEN req.returned /\ pc = "none"
     ELSE req.ret # SPIFLASH_OK \/ Len(req.cbs) = 1

\* the result of the current request
ResultCode ==
  IF spi.async = 0 \/ req.ret # SPIFLASH_OK THEN req.ret ELSE req.cbs[1].err

\* the n-th request ends: it has its result and op is Idle
EndsWith(n, codes) ==
  \/ nreq > n
  \/ nreq = n /\ HasResult /\ spi.op = SPIFLASH_OP_IDLE /\ ResultCode \in codes

\* the operation began with a busy pre-check that found the chip busy
PreCheckFoundBusy ==
  /\ Len(trace) >= 2 /\ trace[2].at = "precheck" /\ BusyBitSet(trace[2].rxv)

\* C24: if every spi_txrx completes with OK and in each busy wait the status
\* register eventually reads ready, every accepted operation reaches op = Idle
\* with result OK after finitely many steps (in asynchronous mode the
\* callback eventually fires with OK).
C24_Termination ==
  /\ \A n \in 1..MaxLiveReq :
       (nreq = n /\ req.name # "none") ~> EndsWith(n, {SPIFLASH_OK})
  /\ [](HasResult => ResultCode = SPIFLASH_OK)

\* C24 as the driver does it: under the same HAL and chip every accepted
\* operation reaches op = Idle after finitely many steps, with result OK
\* unless its busy pre-check found the chip busy, and then with HwBusy.
C24_TerminationOrHwBusy ==
  /\ \A n \in 1..MaxLiveReq :
       (nreq = n /\ req.name # "none")
         ~> EndsWith(n, {SPIFLASH_OK, SPIFLASH_ERR_HW_BUSY})
  /\ [](HasResult => ResultCode = (IF PreCheckFoundBusy THEN SPIFLASH_ERR_HW_BUSY
                                   ELSE SPIFLASH_OK))

\* C24 witness: an asynchronous erase of ten 4K blocks from address 1 has been
\* called back with OK after the chip answered busy twice.
C24_Witness ==
  /\ spi.async # 0 /\ req.name = "erase" /\ req.args.len = 40960 /\ req.args.addr = 1
  /\ HasResult /\ ResultCode = SPIFLASH_OK /\ spi.op = SPIFLASH_OP_IDLE
  /\ nbusy = MaxLiveBusy /\ spi.len = 0

---------------------------------------------------------------------------
(* The cursor of a write or an erase *)

Chunked == {"write", "erase"}

\* the cursor and the remaining length account for the request's range
CursorInRange ==
  req.name \in Chunked
    => /\ spi.addr + spi.len = req.args.addr + req.args.len
       /\ spi.len >= 0
       /\ spi.addr >= req.args.addr
       /\ (CompletedOk /\ spi.op = SPIFLASH_OP_IDLE) => spi.len = 0

\* a step of the engine within the current write or erase
CursorStep ==
  (req.name \in Chunked /\ nreq' = nreq /\ req'.name = req.name)
    => /\ spi'.addr >= spi.addr
       /\ spi'.len <= spi.len
       /\ (spi.op \in {"WRITE_sDATA", "ERASE_BLOCK_sERAS"} /\ spi'.op # spi.op
             /\ ev'.ret = SPIFLASH_OK)
            => (spi'.op = SPIFLASH_OP_IDLE <=> spi.len = 0)

\* C25: during a write or an erase the cursor addr never decreases and the
\* remaining length never increases, addr + remaining length stays equal to
\* the initial addr + len, the remaining length never goes below zero, and
\* the operation ends exactly when the remaining length is zero: after a
\* chunk the engine goes to Idle if nothing remains and to the next chunk
\* otherwise.
C25_CursorMonotonic == []CursorInRange /\ [][CursorStep]_vars

\* C25 witness: an erase of two blocks has completed: the cursor is at the
\* end of the range and nothing remains.
C25_Witness ==
  /\ req.name = "erase" /\ req.args.len = 8192 /\ CompletedOk
  /\ spi.op = SPIFLASH_OP_IDLE
  /\ spi.addr = req.args.addr + 8192 /\ spi.len = 0
  /\ Len(TxrxAt({"ERASE_BLOCK_sERAS"})) = 2

---------------------------------------------------------------------------
(* Operations that follow earlier operations, on both configurations *)

MaxHistReq == 2      \* accepted requests per run
MaxHistBusy == 1     \* busy status answers per operation

InitHistory ==
  InitWith({CfgBig, CfgLittleZero}, {SPIFLASH_CMD_TBL_STANDARD}, Modes,
           Environment(TxrxResults, TriggerCodes, {0, 1}, MaxHistBusy, MaxHistReq))

NextHistory ==
  \/ SPIFLASH_write(3, 2)
  \/ SPIFLASH_fast_read(8192, 2)
  \/ SPIFLASH_write_sr(2)
  \/ \E ms \in {0, 4} : SPIFLASH_write_reg(49, 2, 1, ms)
  \/ \E v \in {0, 1} : SetCouldBeBusy(v)
  \/ \E e \in env.codes : AsyncTrigger(e)
  \/ SyncLoop

SpecHistory == InitHistory /\ [][NextHistory]_vars

\* the wait-bearing transactions that went through and whose nominal time is 0
ZeroTimeAt ==
  {i \in 1..Len(trace) :
     /\ trace[i].k = "txrx" /\ trace[i].at \in WaitBearing
     /\ trace[i].a = SPIFLASH_OK /\ NominalTime(trace[i]) = 0}

\* after the transaction at i the engine deasserts CS and calls wait(0) once;
\* the call after that belongs to the next step, not to a status poll
ShortCircuit(i) ==
  /\ i + 1 <= Len(trace) => IsCs(i + 1, 0) /\ trace[i + 1].at = "bcw_wait"
  /\ i + 2 <= Len(trace) => trace[i + 2].k = "wait" /\ trace[i + 2].a = 0
  /\ i + 3 <= Len(trace) => trace[i + 3].at \notin BcwSteps

\* C26: when the nominal time of a wait-bearing step is 0, the engine
\* deasserts CS, calls wait(0) exactly once, issues no read_sr transaction
\* and continues with the next step of the operation on the next re-entry.
C26_ZeroTimeShortCircuit == \A i \in ZeroTimeAt : ShortCircuit(i)

---------------------------------------------------------------------------
(* BadConfig *)

\* the command tables with at least one block erase opcode: the standard
\* opcodes of the 4K, 32K and 64K blocks, and two more for 8K and 16K
EraseTables ==
  {[SPIFLASH_CMD_TBL_STANDARD EXCEPT
      !.block_erase_4 = IF 4 \in S THEN 32 ELSE 0,
      !.block_erase_8 = IF 8 \in S THEN 64 ELSE 0,
      !.block_erase_16 = IF 16 \in S THEN 65 ELSE 0,
      !.block_erase_32 = IF 32 \in S THEN 82 ELSE 0,
      !.block_erase_64 = IF 64 \in S THEN 216 ELSE 0] :
     S \in (SUBSET {4, 8, 16, 32, 64}) \ {{}}}

TableAddrs == {0, 1, 4096, 32768, 61440}
TableLens == {4096, 8192, 36864, 69632}

InitTables ==
  InitWith({CfgBig}, EraseTables, Modes,
           Environment({SPIFLASH_OK}, {SPIFLASH_OK}, {0}, 0, MaxReq))

NextTables ==
  \/ \E addr \in TableAddrs, len \in TableLens : SPIFLASH_erase(addr, len)
  \/ \E e \in env.codes : AsyncTrigger(e)
  \/ SyncLoop

SpecTables == InitTables /\ [][NextTables]_vars

\* the block erase opcodes that the command table has
BlockEraseOpcodes ==
  {cmd_tbl.block_erase_4, cmd_tbl.block_erase_8, cmd_tbl.block_erase_16,
   cmd_tbl.block_erase_32, cmd_tbl.block_erase_64} \ {0}

\* the erase steps that asserted CS
EraseStepAt ==
  {i \in 1..Len(trace) : trace[i].k = "cs" /\ trace[i].at = "ERASE_BLOCK_sERAS"}

\* no entry of the current request reported BadConfig
NoBadConfig ==
  /\ req.ret # SPIFLASH_ERR_BAD_CONFIG
  /\ ev.name = req.name => ev.ret # SPIFLASH_ERR_BAD_CONFIG
  /\ \A k \in 1..Len(req.cbs) : req.cbs[k].err # SPIFLASH_ERR_BAD_CONFIG

\* C27: for every command table with at least one block erase opcode and
\* every (addr, len) that SPIFLASH_erase accepts, every erase step finds a
\* non-zero size whose opcode is in the table and transmits it, no step
\* returns BadConfig, and the erase runs until the remaining length is zero.
C27_NoBadConfig ==
  (req.name = "erase" /\ BlockEraseOpcodes # {})
    => /\ NoBadConfig
       /\ \A i \in EraseStepAt :
            /\ i + 1 <= Len(trace)
            /\ trace[i + 1].k = "txrx" /\ trace[i + 1].tx[1] \in BlockEraseOpcodes
       /\ HasResult => (ResultCode = SPIFLASH_OK /\ spi.len = 0)
       /\ (spi.op = SPIFLASH_OP_IDLE /\ pc = "none") => spi.len = 0

\* C27 witness: with the standard table an erase of 36K from 32K has
\* completed in two steps, a 32K block and a 4K block.
C27_Witness ==
  /\ req.name = "erase" /\ req.args.addr = 32768 /\ req.args.len = 36864
  /\ cmd_tbl = SPIFLASH_CMD_TBL_STANDARD /\ spi.async # 0
  /\ HasResult /\ ResultCode = SPIFLASH_OK /\ spi.len = 0
  /\ Len(TxrxAt({"ERASE_BLOCK_sERAS"})) = 2
  /\ TxrxAt({"ERASE_BLOCK_sERAS"})[1].tx[1] = cmd_tbl.block_erase_32
  /\ TxrxAt({"ERASE_BLOCK_sERAS"})[2].tx[1] = cmd_tbl.block_erase_4

---------------------------------------------------------------------------
(* The fast read frame *)

\* the fast read transactions of the current request
FastReadAt == {i \in 1..Len(trace) : trace[i].k = "txrx" /\ trace[i].at = "FAST_READ"}

FastReadFrame(tx) ==
  /\ Len(tx) = 1 + cfg.addr_sz + 1 + cfg.addr_dummy_sz
  /\ tx[1] = cmd_tbl.read_data_fast
  /\ DecodeAddress(tx) = req.args.addr % Pow2(8 * cfg.addr_sz)
  /\ \A j \in (1 + cfg.addr_sz + 1)..Len(tx) : tx[j] = 0
  /\ (cfg = CfgBig /\ cmd_tbl = SPIFLASH_CMD_TBL_STANDARD /\ req.args.addr = 8192)
       => tx = <<11, 0, 32, 0, 0>>

\* C28: after any sequence of earlier operations on an initialised driver, a
\* fast read transmits exactly 1 + addr_sz + 1 + addr_dummy_sz bytes: the
\* read_data_fast opcode, the addr_sz address bytes and 1 + addr_dummy_sz
\* dummy bytes that are all 0x00; with the standard table, a 3-byte
\* big-endian address and addr 0x002000 the frame is 0B 00 20 00 00.
C28_FastReadFrame ==
  \A i \in FastReadAt :
    /\ FastReadFrame(trace[i].tx)
    /\ trace[i].rxlen = req.args.len
    /\ i > 1 /\ IsCs(i - 1, 1)

\* C28 witness: a fast read has sent its frame on a driver whose scratch
\* buffer an earlier write_reg has filled, on the chip with an address dummy
\* byte.
C28_Witness ==
  /\ req.name = "fast_read" /\ nreq = 2 /\ FastReadAt # {}
  /\ req.start.buf[0] = 49 /\ req.start.buf[1] = 2
  /\ cfg.addr_dummy_sz = 1
  /\ \A i \in FastReadAt : Len(trace[i].tx) = 5 /\ trace[i].a = SPIFLASH_OK

---------------------------------------------------------------------------
(* History independence *)

\* the bytes of tx_internal_buf that the request itself stores before it
\* starts the engine (spiflash.c:694, 710, 727-728)
SeededBytes(name) ==
  CASE name = "write_reg" -> {0, 1}
    [] name \in {"write_sr", "read_reg"} -> {0}
    [] OTHER -> {}

\* the current request as it starts on a freshly initialised driver: what the
\* request stores and could_be_busy are those of the run, everything else is
\* as SPIFLASH_init leaves it
FreshStart ==
  [SPIFLASH_init(0) EXCEPT
     !.op = req.start.op, !.addr = req.start.addr, !.len = req.start.len,
     !.ptr = req.start.ptr, !.could_be_busy = req.start.could_be_busy,
     !.wait_period_ms = IF req.name = "write_reg" /\ req.args.write_en # 0
                          THEN req.args.wait_ms ELSE 0,
     !.buf = [i \in 0..(BufLen - 1) |->
                IF i \in SeededBytes(req.name) THEN req.start.buf[i] ELSE 0]]

\* the same request on a freshly initialised driver, under the HAL and the
\* chip answers of the run
FreshTwin == spiflash_exe_blocking(FreshStart, HalOfRun)

SameAsFresh(b) == WireOf(b.calls) = WireOf(trace) /\ b.res = OpResult

\* C29: the cs, spi_txrx and wait calls of an operation accepted from Idle
\* depend only on its arguments, the configuration, could_be_busy and the
\* chip's responses during the operation, not on how earlier operations
\* ended: they are the calls the same operation makes on a freshly
\* initialised driver.
C29_HistoryIndependent == OpDone => SameAsFresh(FreshTwin)

=============================================================================
